---- MODULE Spec2Model ----
(***************************************************************************)
(* Token lifecycle of the habit-tracker authentication service:            *)
(* AuthController (register, login, refresh, logout) over the users and    *)
(* refresh_tokens tables, with every awaited storage call a separate step  *)
(* so that concurrent requests interleave at the handlers' suspension      *)
(* points.                                                                 *)
(*                                                                         *)
(* The rate limiters mounted in front of the routes take part in the       *)
(* specification SpecLimited only: in the others every request reaches its *)
(* handler.                                                                *)
(*                                                                         *)
(* Time is a natural number; the two token lifetimes are configuration     *)
(* (environment variables) and are set to a few time units so that expiry  *)
(* happens within the explored horizon.                                    *)
(***************************************************************************)
EXTENDS Integers, Sequences, FiniteSets, TLC

(***************************************************************************)
(* Bounds of the exploration.                                              *)
(***************************************************************************)
MaxTime == 1
MaxTokens == 3
MaxUsers == 2
MaxFiles == 3

Procs == {"p1", "p2"}

(***************************************************************************)
(* Configuration and literals of the program.                              *)
(***************************************************************************)
\* JWT_EXPIRES_IN and REFRESH_TOKEN_EXPIRES_IN, in model time units
JWT_EXPIRES_IN == 1
REFRESH_TOKEN_EXPIRES_IN == 1
JWT_SECRET == "fallback-secret-change-this"
\* RATE_LIMIT_MAX_REQUESTS (set low, above the two other limits) and
\* LOGIN_RATE_LIMIT_MAX
RATE_LIMIT_MAX_REQUESTS == 7
LOGIN_RATE_LIMIT_MAX == 5
\* revoked_at of a record that was never revoked (SQL NULL)
NULL == 0 - 1
\* the result of a lookup that found no row (JavaScript null)
NoRow == [found |-> FALSE]

\* Strings are sequences of characters, so that the validators can inspect them.
EmailA == <<"a", "@", "x", ".", "c">>
EmailB == <<"b", "@", "x", ".", "c">>
EmailAUpper == <<"A", "@", "x", ".", "c">>
BadEmail == <<"a", "x", ".", "c">>
Passw0rd1 == <<"P", "a", "s", "s", "w", "0", "r", "d", "1">>
WeakPassword == <<"p", "a", "s", "s", "w", "o", "r", "d">>
OneAccount == {EmailA, BadEmail}
TwoAccounts == {EmailA, EmailB, BadEmail}
CaseVariants == {EmailA, EmailAUpper}
Passwords == {Passw0rd1, WeakPassword}
Salts == {"s1"}

UpperCase == {"P", "A", "B"}
LowerCase == {"a", "b", "c", "d", "o", "p", "r", "s", "w", "x"}
Digit == {"0", "1", "2"}
Space == {" "}

VARIABLES
    users,           \* the users table: a set of rows
    refresh_tokens,  \* the refresh_tokens table: a set of rows
    now,             \* the clock (NOW() and Date.now())
    nextUserId,      \* the SERIAL sequence of users.id
    nextTokenId,     \* the SERIAL sequence of refresh_tokens.id
    nextSecret,      \* the next value crypto.randomBytes returns
    frame,           \* per request slot: the handler's position and locals
    resp,            \* the response the last step sent, NoResponse if it sent none
    accessTokens,    \* history: per user id, the newest access token issued
    rotations,       \* history: per presented secret, the successful refreshes
    hits,            \* per rate limiter: the hits its store counts for the client's key
    failed,          \* history: the failed calls authRateLimit saw in its window
    failedRefresh,   \* history: those of them that were refresh calls
    MIGRATIONS_DIR,  \* the files of the migrations directory
    migrations,      \* the migrations table: a set of rows
    schema,          \* the SQL committed to the database, in commit order
    runner           \* the migration script: its position, locals and transaction

vars == <<users, refresh_tokens, now, nextUserId, nextTokenId, nextSecret,
          frame, resp, accessTokens, rotations, hits, failed, failedRefresh,
          MIGRATIONS_DIR, migrations, schema, runner>>

(***************************************************************************)
(* utils/auth                                                              *)
(***************************************************************************)
\* argon2id with a per-call random salt, embedded in the digest
hashPassword(password, salt) ==
    [alg |-> "argon2id", salt |-> salt, of |-> password]

\* faulty variant: the digest is not compared
verifyPassword_anyPassword(hash, password) ==
    hash.alg = "argon2id"

verifyPassword(hash, password) ==
    hash.alg = "argon2id" /\ hash.of = password

\* faulty variant: the token is signed with REFRESH_TOKEN_SECRET
generateAccessToken_otherKey(payload, t) ==
    [userId |-> payload.userId, email |-> payload.email,
     iat |-> t, exp |-> t + JWT_EXPIRES_IN,
     iss |-> "habit-tracker", aud |-> "habit-tracker-users",
     key |-> "fallback-refresh-secret-change-this"]

generateAccessToken(payload, t) ==
    [userId |-> payload.userId, email |-> payload.email,
     iat |-> t, exp |-> t + JWT_EXPIRES_IN,
     iss |-> "habit-tracker", aud |-> "habit-tracker-users",
     key |-> JWT_SECRET]

\* faulty variant: jwt.verify with ignoreExpiration
verifyAccessToken_unexpiring(token, t) ==
    IF /\ token.key = JWT_SECRET
       /\ token.iss = "habit-tracker"
       /\ token.aud = "habit-tracker-users"
    THEN [found |-> TRUE, userId |-> token.userId, email |-> token.email,
          iat |-> token.iat, exp |-> token.exp]
    ELSE NoRow

\* the payload, or NoRow for the null that the catch block returns
verifyAccessToken(token, t) ==
    IF /\ token.key = JWT_SECRET
       /\ token.iss = "habit-tracker"
       /\ token.aud = "habit-tracker-users"
       /\ t < token.exp
    THEN [found |-> TRUE, userId |-> token.userId, email |-> token.email,
          iat |-> token.iat, exp |-> token.exp]
    ELSE NoRow

\* faulty: a digest that does not depend on the secret
hashRefreshToken_constant(token) == <<"sha256", <<>>>>

\* sha256 hex digest: deterministic, injective on the secrets in use
hashRefreshToken(token) == <<"sha256", token>>

getRefreshTokenExpiry(t) == t + REFRESH_TOKEN_EXPIRES_IN

NoneOf(s, bad) == \A i \in 1..Len(s) : s[i] \notin bad

\* /^[^\s@]+@[^\s@]+\.[^\s@]+$/
validateEmail(email) ==
    \E i \in 1..Len(email), j \in 1..Len(email) :
        /\ 1 < i /\ i + 1 < j /\ j < Len(email)
        /\ email[i] = "@" /\ email[j] = "."
        /\ NoneOf(SubSeq(email, 1, i - 1), Space \cup {"@"})
        /\ NoneOf(SubSeq(email, i + 1, j - 1), Space \cup {"@"})
        /\ NoneOf(SubSeq(email, j + 1, Len(email)), Space \cup {"@"})

validatePassword(password) ==
    /\ Len(password) >= 8
    /\ \E i \in 1..Len(password) : password[i] \in UpperCase
    /\ \E i \in 1..Len(password) : password[i] \in LowerCase
    /\ \E i \in 1..Len(password) : password[i] \in Digit

(***************************************************************************)
(* models/User                                                             *)
(***************************************************************************)
\* created_at and updated_at are left out: nothing reads them
UserRow(id, email, passwordHash) ==
    [found |-> TRUE, id |-> id, email |-> email, password_hash |-> passwordHash]

\* result.rows[0] || null
FirstRow(rows) ==
    IF rows = {} THEN NoRow
    ELSE CHOOSE r \in rows : \A q \in rows : r.id <= q.id

User_findByEmail(email) == FirstRow({u \in users : u.email = email})

User_findById(id) == FirstRow({u \in users : u.id = id})

(***************************************************************************)
(* models/RefreshToken                                                     *)
(***************************************************************************)
\* parent and root are history fields: the record a refresh presented (0 for
\* register and login) and the register/login record the chain started from.
TokenRow(id, userId, tokenHash, expiresAt, t, parent, root) ==
    [found |-> TRUE, id |-> id, user_id |-> userId, token_hash |-> tokenHash,
     expires_at |-> expiresAt, created_at |-> t, revoked_at |-> NULL,
     parent |-> parent, root |-> root]

\* revoked_at IS NULL AND expires_at > NOW()
IsActive(r, t) == r.revoked_at = NULL /\ r.expires_at > t

\* faulty variant: the lookup without its WHERE filter on revoked_at and expires_at
RefreshToken_findByTokenHash_unfiltered(tokenHash, t) ==
    FirstRow({r \in refresh_tokens : r.token_hash = tokenHash})

\* faulty variant: expires_at >= NOW()
RefreshToken_findByTokenHash_inclusive(tokenHash, t) ==
    FirstRow({r \in refresh_tokens : /\ r.token_hash = tokenHash
                                     /\ r.revoked_at = NULL /\ r.expires_at >= t})

RefreshToken_findByTokenHash(tokenHash, t) ==
    FirstRow({r \in refresh_tokens : r.token_hash = tokenHash /\ IsActive(r, t)})

\* faulty variant: the UPDATE matches no row
\* faulty: the update also renews the expiry
RefreshToken_revoke_renewing(id, t) ==
    {IF r.id = id
     THEN [r EXCEPT !.revoked_at = t, !.expires_at = getRefreshTokenExpiry(t) + 1]
     ELSE r : r \in refresh_tokens}

RefreshToken_revoke_skipped(id, t) == refresh_tokens

\* UPDATE ... SET revoked_at = NOW() WHERE id = $1
RefreshToken_revoke(id, t) ==
    {IF r.id = id THEN [r EXCEPT !.revoked_at = t] ELSE r : r \in refresh_tokens}

\* faulty variant: the UPDATE without its filter on user_id
RefreshToken_revokeAllForUser_anyUser(userId, t) ==
    {IF r.revoked_at = NULL THEN [r EXCEPT !.revoked_at = t] ELSE r : r \in refresh_tokens}

\* UPDATE ... WHERE user_id = $1 AND revoked_at IS NULL
RefreshToken_revokeAllForUser(userId, t) ==
    {IF r.user_id = userId /\ r.revoked_at = NULL
        THEN [r EXCEPT !.revoked_at = t] ELSE r : r \in refresh_tokens}

\* faulty variant: the UPDATE without its filter on revoked_at
RefreshToken_revokeByTokenHash_rewriting(tokenHash, t) ==
    {IF r.token_hash = tokenHash
        THEN [r EXCEPT !.revoked_at = t] ELSE r : r \in refresh_tokens}

\* UPDATE ... WHERE token_hash = $1 AND revoked_at IS NULL
RefreshToken_revokeByTokenHash(tokenHash, t) ==
    {IF r.token_hash = tokenHash /\ r.revoked_at = NULL
        THEN [r EXCEPT !.revoked_at = t] ELSE r : r \in refresh_tokens}

\* ORDER BY created_at DESC.  Rows inserted within one unit of the model's
\* clock keep the order of their INSERTs (the database clock is finer than the
\* unit and does not run backwards), which is the order of their SERIAL ids.
RECURSIVE NewestFirst(_)
NewestFirst(rows) ==
    IF rows = {} THEN << >>
    ELSE LET newest == CHOOSE r \in rows : \A q \in rows :
                           \/ q.created_at < r.created_at
                           \/ (q.created_at = r.created_at /\ q.id <= r.id)
         IN  <<newest>> \o NewestFirst(rows \ {newest})

\* faulty variant: the SELECT without its filter on expires_at
RefreshToken_findActiveByUserId_unexpiring(userId, t) ==
    NewestFirst({r \in refresh_tokens : r.user_id = userId /\ r.revoked_at = NULL})

\* SELECT ... WHERE user_id = $1 AND revoked_at IS NULL AND expires_at > NOW()
\*        ORDER BY created_at DESC
RefreshToken_findActiveByUserId(userId, t) ==
    NewestFirst({r \in refresh_tokens : r.user_id = userId /\ IsActive(r, t)})

\* faulty variant: the comparison of expires_at is reversed
RefreshToken_cleanupExpired_reversed(t) ==
    {r \in refresh_tokens : ~(r.expires_at > t \/ r.revoked_at # NULL)}

\* DELETE ... WHERE expires_at < NOW() OR revoked_at IS NOT NULL
RefreshToken_cleanupExpired(t) ==
    {r \in refresh_tokens : ~(r.expires_at < t \/ r.revoked_at # NULL)}

\* result.rowCount || 0 of that DELETE
RefreshToken_cleanupExpired_rowCount(t) ==
    Cardinality({r \in refresh_tokens : r.expires_at < t \/ r.revoked_at # NULL})

(***************************************************************************)
(* Requests and responses                                                  *)
(***************************************************************************)
Idle == [pc |-> "idle"]

\* A response is tagged with the route that sent it and the request body it
\* answers.
NoResponse == [op |-> "none", status |-> 0, code |-> "NONE"]

Error(op, request, status, code) ==
    [op |-> op, request |-> request, status |-> status, code |-> code]

\* { message: 'Logout successful' }
LogoutResponse(request) ==
    [op |-> "logout", request |-> request, status |-> 200, code |-> "NONE"]

\* the body of a successful register, login or refresh
AuthResponse(op, request, status, accessToken, refreshToken, user) ==
    [op |-> op, request |-> request, status |-> status, code |-> "NONE",
     accessToken |-> accessToken, refreshToken |-> refreshToken,
     user |-> [id |-> user.id, email |-> user.email]]

\* A raw refresh secret is a one-element string; the empty string is the
\* absent (falsy) body field.
Secret(n) == <<n>>
NoSecret == <<>>
\* the secrets a client can present: none, one never issued, any issued one
Secrets == {NoSecret} \cup {Secret(n) : n \in 0..(nextSecret - 1)}

\* Authorization headers: absent, a malformed bearer token, a well-formed
\* token signed with another key, and the newest access token issued to each
\* user (an older one is accepted only while the newest is, and names the
\* same user).
NoHeader == [bearer |-> FALSE]
Bearer(token) == [bearer |-> TRUE, token |-> token]
Malformed == [key |-> "malformed"]
Forged == [userId |-> 1, email |-> EmailA, iat |-> 0, exp |-> MaxTime + 1,
           iss |-> "habit-tracker", aud |-> "habit-tracker-users",
           key |-> "attacker-key"]
IssuedAccessTokens == {accessTokens[id] : id \in DOMAIN accessTokens}
AuthHeaders ==
    {NoHeader, Bearer(Malformed), Bearer(Forged)}
        \cup {Bearer(t) : t \in IssuedAccessTokens}

Reply(p, r) == /\ resp' = r
               /\ frame' = [frame EXCEPT ![p] = Idle]

Goto(p, f) == /\ frame' = [frame EXCEPT ![p] = f]
              /\ resp' = NoResponse

\* Joi: email: string().email(), password: string().min(8).max(128)
registerSchema(email, password) ==
    /\ Len(email) <= 255 /\ \E i \in 1..Len(email) : email[i] = "@"
    /\ Len(password) >= 8 /\ Len(password) <= 128

loginSchema(email, password) ==
    /\ \E i \in 1..Len(email) : email[i] = "@"
    /\ Len(password) >= 1

refreshSchema(refreshToken) == Len(refreshToken) >= 1

Put(f, k, v) == [x \in DOMAIN f \cup {k} |-> IF x = k THEN v ELSE f[x]]

Bump(f, k) == Put(f, k, IF k \in DOMAIN f THEN f[k] + 1 ELSE 1)

(***************************************************************************)
(* The INSERT of RefreshTokenModel.create together with the token          *)
(* generation that precedes it in the three handlers.  The foreign key on  *)
(* user_id rejects a row whose user is gone.                               *)
(***************************************************************************)
\* faulty: no foreign key on user_id
CanInsertToken_unchecked(user) == TRUE

CanInsertToken(user) == \E u \in users : u.id = user.id

\* faulty: the row is inserted with an expiry that is not in the future
NewTokenRow_expired(user, parent, root) ==
    TokenRow(nextTokenId, user.id, hashRefreshToken(Secret(nextSecret)),
             now, now, parent,
             IF root = 0 THEN nextTokenId ELSE root)

NewTokenRow(user, parent, root) ==
    TokenRow(nextTokenId, user.id, hashRefreshToken(Secret(nextSecret)),
             getRefreshTokenExpiry(now), now, parent,
             IF root = 0 THEN nextTokenId ELSE root)

IssueTokens(p, op, status, user, parent, root) ==
    LET accessToken == generateAccessToken([userId |-> user.id, email |-> user.email], now)
    IN  /\ nextTokenId <= MaxTokens
        /\ IF CanInsertToken(user)
           THEN /\ refresh_tokens' = refresh_tokens \cup {NewTokenRow(user, parent, root)}
                /\ Reply(p, AuthResponse(op, frame[p].request, status, accessToken,
                                         Secret(nextSecret), user))
                /\ accessTokens' = Put(accessTokens, user.id, accessToken)
           ELSE /\ UNCHANGED <<refresh_tokens, accessTokens>>
                /\ Reply(p, Error(op, frame[p].request, 500, "INTERNAL_ERROR"))
        /\ nextTokenId' = nextTokenId + 1
        /\ nextSecret' = nextSecret + 1

(***************************************************************************)
(* AuthController.register                                                 *)
(***************************************************************************)
\* faulty variant: register without the lookup of the email
RegisterFind_unchecked(p, email, password) ==
    LET request == [email |-> email]
    IN  /\ frame[p] = Idle
        /\ IF ~registerSchema(email, password)
             THEN Reply(p, Error("register", request, 400, "VALIDATION_ERROR"))
           ELSE IF ~validateEmail(email)
             THEN Reply(p, Error("register", request, 400, "INVALID_EMAIL"))
           ELSE IF ~validatePassword(password)
             THEN Reply(p, Error("register", request, 400, "WEAK_PASSWORD"))
           ELSE Goto(p, [pc |-> "register_user", request |-> request,
                         password |-> password])
        /\ UNCHANGED <<users, refresh_tokens, now, nextUserId, nextTokenId, nextSecret,
                       accessTokens, rotations>>

RegisterFind(p, email, password) ==
    LET request == [email |-> email]
    IN  /\ frame[p] = Idle
        /\ IF ~registerSchema(email, password)
             THEN Reply(p, Error("register", request, 400, "VALIDATION_ERROR"))
           ELSE IF ~validateEmail(email)
             THEN Reply(p, Error("register", request, 400, "INVALID_EMAIL"))
           ELSE IF ~validatePassword(password)
             THEN Reply(p, Error("register", request, 400, "WEAK_PASSWORD"))
           ELSE IF User_findByEmail(email).found
             THEN Reply(p, Error("register", request, 409, "USER_EXISTS"))
           ELSE Goto(p, [pc |-> "register_user", request |-> request,
                         password |-> password])
        /\ UNCHANGED <<users, refresh_tokens, now, nextUserId, nextTokenId, nextSecret,
                       accessTokens, rotations>>

\* hashPassword, then UserModel.create; users.email is UNIQUE
RegisterCreateUser(p, salt) ==
    /\ frame[p].pc = "register_user"
    /\ LET request == frame[p].request
           row == UserRow(nextUserId, request.email, hashPassword(frame[p].password, salt))
       IN  IF \E u \in users : u.email = request.email
           THEN /\ Reply(p, Error("register", request, 500, "INTERNAL_ERROR"))
                /\ UNCHANGED <<users, nextUserId>>
           ELSE /\ users' = users \cup {row}
                /\ nextUserId' = nextUserId + 1
                /\ Goto(p, [pc |-> "register_token", request |-> request, user |-> row])
    /\ UNCHANGED <<refresh_tokens, now, nextTokenId, nextSecret, accessTokens, rotations>>

RegisterCreateToken(p) ==
    /\ frame[p].pc = "register_token"
    /\ IssueTokens(p, "register", 201, frame[p].user, 0, 0)
    /\ UNCHANGED <<users, now, nextUserId, rotations>>

(***************************************************************************)
(* AuthController.login                                                    *)
(***************************************************************************)
\* faulty variant: an unknown email is told apart from a wrong password
LoginFind_enumerating(p, email, password) ==
    LET request == [email |-> email]
        user == User_findByEmail(email)
    IN  /\ frame[p] = Idle
        /\ IF ~loginSchema(email, password)
             THEN Reply(p, Error("login", request, 400, "VALIDATION_ERROR"))
           ELSE IF ~user.found
             THEN Reply(p, Error("login", request, 404, "USER_NOT_FOUND"))
           ELSE IF ~verifyPassword(user.password_hash, password)
             THEN Reply(p, Error("login", request, 401, "INVALID_CREDENTIALS"))
           ELSE Goto(p, [pc |-> "login_token", request |-> request, user |-> user])
        /\ UNCHANGED <<users, refresh_tokens, now, nextUserId, nextTokenId, nextSecret,
                       accessTokens, rotations>>

LoginFind(p, email, password) ==
    LET request == [email |-> email]
        user == User_findByEmail(email)
    IN  /\ frame[p] = Idle
        /\ IF ~loginSchema(email, password)
             THEN Reply(p, Error("login", request, 400, "VALIDATION_ERROR"))
           ELSE IF ~user.found
             THEN Reply(p, Error("login", request, 401, "INVALID_CREDENTIALS"))
           ELSE IF ~verifyPassword(user.password_hash, password)
             THEN Reply(p, Error("login", request, 401, "INVALID_CREDENTIALS"))
           ELSE Goto(p, [pc |-> "login_token", request |-> request, user |-> user])
        /\ UNCHANGED <<users, refresh_tokens, now, nextUserId, nextTokenId, nextSecret,
                       accessTokens, rotations>>

\* faulty variant: login ends the account's earlier sessions
LoginCreateToken_exclusive(p) ==
    LET user == frame[p].user
        accessToken == generateAccessToken([userId |-> user.id, email |-> user.email], now)
    IN  /\ frame[p].pc = "login_token"
        /\ nextTokenId <= MaxTokens
        /\ refresh_tokens' = RefreshToken_revokeAllForUser(user.id, now)
                                 \cup {NewTokenRow(user, 0, 0)}
        /\ Reply(p, AuthResponse("login", frame[p].request, 200, accessToken,
                                 Secret(nextSecret), user))
        /\ accessTokens' = Put(accessTokens, user.id, accessToken)
        /\ nextTokenId' = nextTokenId + 1
        /\ nextSecret' = nextSecret + 1
        /\ UNCHANGED <<users, now, nextUserId, rotations>>

LoginCreateToken(p) ==
    /\ frame[p].pc = "login_token"
    /\ IssueTokens(p, "login", 200, frame[p].user, 0, 0)
    /\ UNCHANGED <<users, now, nextUserId, rotations>>

(***************************************************************************)
(* AuthController.refresh                                                  *)
(***************************************************************************)
RefreshFind(p, refreshToken) ==
    LET request == [refreshToken |-> refreshToken]
        storedToken == RefreshToken_findByTokenHash(hashRefreshToken(refreshToken), now)
    IN  /\ frame[p] = Idle
        /\ IF ~refreshSchema(refreshToken)
             THEN Reply(p, Error("refresh", request, 400, "VALIDATION_ERROR"))
           ELSE IF ~storedToken.found
             THEN Reply(p, Error("refresh", request, 401, "INVALID_REFRESH_TOKEN"))
           ELSE Goto(p, [pc |-> "refresh_user", request |-> request,
                         storedToken |-> storedToken])
        /\ UNCHANGED <<users, refresh_tokens, now, nextUserId, nextTokenId, nextSecret,
                       accessTokens, rotations>>

\* faulty: a missing account is reported as an invalid refresh token
RefreshFindUser_uniform(p) ==
    /\ frame[p].pc = "refresh_user"
    /\ LET user == User_findById(frame[p].storedToken.user_id)
       IN  IF ~user.found
             THEN Reply(p, Error("refresh", frame[p].request, 401, "INVALID_REFRESH_TOKEN"))
           ELSE Goto(p, [pc |-> "refresh_revoke", request |-> frame[p].request,
                         storedToken |-> frame[p].storedToken, user |-> user])
    /\ UNCHANGED <<users, refresh_tokens, now, nextUserId, nextTokenId, nextSecret,
                   accessTokens, rotations>>

RefreshFindUser(p) ==
    /\ frame[p].pc = "refresh_user"
    /\ LET user == User_findById(frame[p].storedToken.user_id)
       IN  IF ~user.found
             THEN Reply(p, Error("refresh", frame[p].request, 401, "USER_NOT_FOUND"))
           ELSE Goto(p, [pc |-> "refresh_revoke", request |-> frame[p].request,
                         storedToken |-> frame[p].storedToken, user |-> user])
    /\ UNCHANGED <<users, refresh_tokens, now, nextUserId, nextTokenId, nextSecret,
                   accessTokens, rotations>>

RefreshRevoke(p) ==
    /\ frame[p].pc = "refresh_revoke"
    /\ refresh_tokens' = RefreshToken_revoke(frame[p].storedToken.id, now)
    /\ Goto(p, [frame[p] EXCEPT !.pc = "refresh_create"])
    /\ UNCHANGED <<users, now, nextUserId, nextTokenId, nextSecret, accessTokens, rotations>>

RefreshCreate(p) ==
    /\ frame[p].pc = "refresh_create"
    /\ IssueTokens(p, "refresh", 200, frame[p].user,
                   frame[p].storedToken.id, frame[p].storedToken.root)
    /\ rotations' = IF CanInsertToken(frame[p].user)
                    THEN Bump(rotations, frame[p].request.refreshToken)
                    ELSE rotations
    /\ UNCHANGED <<users, now, nextUserId>>

(***************************************************************************)
(* optionalAuth, then AuthController.logout.  optionalAuth awaits the      *)
(* users lookup only for a token that verifies, and logout awaits          *)
(* revokeByTokenHash only for a body that carries a refresh token, so the  *)
(* request's first storage call is whichever of the three comes first.     *)
(***************************************************************************)
\* the payload of the bearer token, or NoRow
bearerPayload(header) ==
    IF ~header.bearer THEN NoRow ELSE verifyAccessToken(header.token, now)

\* lines 261-265, and the branch on req.user that follows them; again is
\* history: the request repeats the one the last response answered
LogoutRevokeStep(p, request, user, again) ==
    /\ refresh_tokens' =
           IF request.refreshToken # NoSecret
           THEN RefreshToken_revokeByTokenHash(hashRefreshToken(request.refreshToken), now)
           ELSE refresh_tokens
    /\ IF user.found
       THEN Goto(p, [pc |-> "logout_all", request |-> request, user |-> user,
                     again |-> again])
       ELSE Reply(p, LogoutResponse(request))

\* lines 267-276
LogoutRevokeAllStep(p, request, user) ==
    /\ refresh_tokens' = RefreshToken_revokeAllForUser(user.id, now)
    /\ Reply(p, LogoutResponse(request))

\* faulty variant: a bearer token that does not verify is refused, as
\* requireAuth refuses it
LogoutAuth_strict(p, header, refreshToken) ==
    LET payload == bearerPayload(header)
        request == [refreshToken |-> refreshToken,
                    authorization |-> IF payload.found THEN header ELSE NoHeader]
        user == IF payload.found THEN User_findById(payload.userId) ELSE NoRow
        again == resp = LogoutResponse(request)
    IN  /\ frame[p] = Idle
        /\ IF header.bearer /\ ~payload.found
             THEN /\ Reply(p, Error("logout", request, 401, "INVALID_TOKEN"))
                  /\ UNCHANGED refresh_tokens
           ELSE IF ~payload.found
             THEN LogoutRevokeStep(p, request, NoRow, again)
           ELSE IF refreshToken # NoSecret
             THEN /\ Goto(p, [pc |-> "logout_revoke", request |-> request, user |-> user,
                              again |-> again])
                  /\ UNCHANGED refresh_tokens
           ELSE IF user.found
             THEN /\ Goto(p, [pc |-> "logout_all", request |-> request, user |-> user,
                              again |-> again])
                  /\ UNCHANGED refresh_tokens
           ELSE /\ Reply(p, LogoutResponse(request))
                /\ UNCHANGED refresh_tokens
        /\ UNCHANGED <<users, now, nextUserId, nextTokenId, nextSecret, accessTokens, rotations>>

LogoutAuth(p, header, refreshToken) ==
    LET payload == bearerPayload(header)
        \* the echo keeps the header only if its token verifies
        request == [refreshToken |-> refreshToken,
                    authorization |-> IF payload.found THEN header ELSE NoHeader]
        user == IF payload.found THEN User_findById(payload.userId) ELSE NoRow
        again == resp = LogoutResponse(request)
    IN  /\ frame[p] = Idle
        /\ IF ~payload.found
             THEN LogoutRevokeStep(p, request, NoRow, again)
           ELSE IF refreshToken # NoSecret
             THEN /\ Goto(p, [pc |-> "logout_revoke", request |-> request, user |-> user,
                              again |-> again])
                  /\ UNCHANGED refresh_tokens
           ELSE IF user.found
             THEN /\ Goto(p, [pc |-> "logout_all", request |-> request, user |-> user,
                              again |-> again])
                  /\ UNCHANGED refresh_tokens
           ELSE /\ Reply(p, LogoutResponse(request))
                /\ UNCHANGED refresh_tokens
        /\ UNCHANGED <<users, now, nextUserId, nextTokenId, nextSecret, accessTokens, rotations>>

LogoutRevoke(p) ==
    /\ frame[p].pc = "logout_revoke"
    /\ LogoutRevokeStep(p, frame[p].request, frame[p].user, frame[p].again)
    /\ UNCHANGED <<users, now, nextUserId, nextTokenId, nextSecret, accessTokens, rotations>>

LogoutRevokeAll(p) ==
    /\ frame[p].pc = "logout_all"
    /\ LogoutRevokeAllStep(p, frame[p].request, frame[p].user)
    /\ UNCHANGED <<users, now, nextUserId, nextTokenId, nextSecret, accessTokens, rotations>>

(***************************************************************************)
(* requireAuth, then AuthController.getSessions                            *)
(***************************************************************************)
\* { sessions, total: sessions.length }
SessionsResponse(request, sessions) ==
    [op |-> "sessions", request |-> request, status |-> 200, code |-> "NONE",
     sessions |-> sessions, total |-> Len(sessions)]

\* token => ({ id, createdAt, expiresAt })
SessionView(token) ==
    [id |-> token.id, createdAt |-> token.created_at, expiresAt |-> token.expires_at]

\* the middleware up to its awaited lookup of the user, and the branch on the
\* row that the lookup returns
\* faulty variant: the token of an account without an active session is
\* refused
requireAuth_sessionBound(p, header) ==
    LET request == [authorization |-> header]
        payload == bearerPayload(header)
        user == IF payload.found THEN User_findById(payload.userId) ELSE NoRow
    IN  /\ frame[p] = Idle
        /\ IF ~header.bearer
             THEN Reply(p, Error("sessions", request, 401, "MISSING_TOKEN"))
           ELSE IF ~payload.found
             THEN Reply(p, Error("sessions", request, 401, "INVALID_TOKEN"))
           ELSE IF ~user.found
             THEN Reply(p, Error("sessions", request, 401, "USER_NOT_FOUND"))
           ELSE IF RefreshToken_findActiveByUserId(user.id, now) = << >>
             THEN Reply(p, Error("sessions", request, 401, "INVALID_TOKEN"))
           ELSE Goto(p, [pc |-> "sessions_find", request |-> request,
                         user |-> [found |-> TRUE, id |-> user.id, email |-> user.email]])
        /\ UNCHANGED <<users, refresh_tokens, now, nextUserId, nextTokenId, nextSecret,
                       accessTokens, rotations>>

requireAuth(p, header) ==
    LET request == [authorization |-> header]
        payload == bearerPayload(header)
        user == IF payload.found THEN User_findById(payload.userId) ELSE NoRow
    IN  /\ frame[p] = Idle
        /\ IF ~header.bearer
             THEN Reply(p, Error("sessions", request, 401, "MISSING_TOKEN"))
           ELSE IF ~payload.found
             THEN Reply(p, Error("sessions", request, 401, "INVALID_TOKEN"))
           ELSE IF ~user.found
             THEN Reply(p, Error("sessions", request, 401, "USER_NOT_FOUND"))
           ELSE Goto(p, [pc |-> "sessions_find", request |-> request,
                         user |-> [found |-> TRUE, id |-> user.id, email |-> user.email]])
        /\ UNCHANGED <<users, refresh_tokens, now, nextUserId, nextTokenId, nextSecret,
                       accessTokens, rotations>>

getSessions(p) ==
    /\ frame[p].pc = "sessions_find"
    /\ IF ~frame[p].user.found
         THEN Reply(p, Error("sessions", frame[p].request, 401, "AUTH_REQUIRED"))
       ELSE LET activeTokens == RefreshToken_findActiveByUserId(frame[p].user.id, now)
                sessions == [i \in 1..Len(activeTokens) |-> SessionView(activeTokens[i])]
            IN  Reply(p, SessionsResponse(frame[p].request, sessions))
    /\ UNCHANGED <<users, refresh_tokens, now, nextUserId, nextTokenId, nextSecret,
                   accessTokens, rotations>>

(***************************************************************************)
(* The catch block of every handler: an awaited storage call rejects (or   *)
(* the request is cut off at that suspension point) and nothing more runs. *)
(***************************************************************************)
Route(pc) ==
    CASE pc \in {"register_user", "register_token"} -> "register"
      [] pc \in {"login_token"} -> "login"
      [] pc \in {"refresh_user", "refresh_revoke", "refresh_create"} -> "refresh"
      [] pc \in {"logout_revoke", "logout_all"} -> "logout"
      [] pc \in {"sessions_find"} -> "sessions"

Fail(p) ==
    /\ frame[p] # Idle
    /\ Reply(p, Error(Route(frame[p].pc), frame[p].request, 500, "INTERNAL_ERROR"))
    /\ UNCHANGED <<users, refresh_tokens, now, nextUserId, nextTokenId, nextSecret,
                   accessTokens, rotations>>

(***************************************************************************)
(* Environment: the clock and the sweep                                    *)
(***************************************************************************)
Tick ==
    /\ now < MaxTime
    /\ now' = now + 1
    /\ resp' = NoResponse
    /\ UNCHANGED <<users, refresh_tokens, nextUserId, nextTokenId, nextSecret, frame,
                   accessTokens, rotations>>

\* the clock, one unit further than Tick takes it, so that a record is past
\* its expiry for longer than an instant
LateTick ==
    /\ now <= MaxTime
    /\ now' = now + 1
    /\ resp' = NoResponse
    /\ UNCHANGED <<users, refresh_tokens, nextUserId, nextTokenId, nextSecret, frame,
                   accessTokens, rotations>>

CleanupExpired ==
    /\ refresh_tokens' = RefreshToken_cleanupExpired(now)
    /\ resp' = NoResponse
    /\ UNCHANGED <<users, now, nextUserId, nextTokenId, nextSecret, frame,
                   accessTokens, rotations>>

\* UserModel.delete, called from outside the service; the account's records
\* go with it (ON DELETE CASCADE)
DeleteUser ==
    /\ \E u \in users :
           /\ users' = users \ {u}
           /\ refresh_tokens' = {r \in refresh_tokens : r.user_id # u.id}
    /\ resp' = NoResponse
    /\ UNCHANGED <<now, nextUserId, nextTokenId, nextSecret, frame, accessTokens, rotations>>

(***************************************************************************)
(* migrations/migrate.ts: the directory and the script's state             *)
(***************************************************************************)
\* A file name is its base name and its extension; the content of an .sql
\* file is its SQL, which either runs through or raises an error part way.
SqlFile(n, fails) ==
    [filename |-> <<n, ".sql">>, content |-> [sql |-> n, fails |-> fails]]

\* migrate.ts itself lies in the directory
MigrateTs == [filename |-> <<0, ".ts">>, content |-> [sql |-> 0, fails |-> TRUE]]

NoTransaction == [open |-> FALSE, sql |-> <<>>, rows |-> {}]

\* the script is not running; applied is history: the ids it committed
NotRunning == [pc |-> "exit", status |-> 0, allMigrations |-> <<>>, pending |-> <<>>,
               tx |-> NoTransaction, applied |-> <<>>]

(***************************************************************************)
(* Specifications                                                          *)
(***************************************************************************)
Init ==
    /\ users = {}
    /\ refresh_tokens = {}
    /\ now = 0
    /\ nextUserId = 1
    /\ nextTokenId = 1
    /\ nextSecret = 1
    /\ frame = [p \in Procs |-> Idle]
    /\ resp = NoResponse
    /\ accessTokens = << >>
    /\ rotations = << >>
    /\ hits = [general |-> 0, auth |-> 0, registration |-> 0]
    /\ failed = 0
    /\ failedRefresh = 0
    /\ MIGRATIONS_DIR = {MigrateTs}
    /\ migrations = {}
    /\ schema = <<>>
    /\ runner = NotRunning

\* a new request takes the first free slot (the slots are interchangeable)
FirstFree(p) == frame[p] = Idle /\ (p = "p1" \/ frame["p1"] # Idle)

\* a request arrives, with a body drawn from the given emails
StartRegister(p, emails) ==
    FirstFree(p) /\ \E email \in emails, password \in Passwords : RegisterFind(p, email, password)

StartLogin(p, emails) ==
    FirstFree(p) /\ \E email \in emails, password \in Passwords : LoginFind(p, email, password)

StartRefresh(p) ==
    FirstFree(p) /\ \E refreshToken \in Secrets : RefreshFind(p, refreshToken)

StartLogout(p) ==
    FirstFree(p) /\ \E header \in AuthHeaders, refreshToken \in Secrets :
                        LogoutAuth(p, header, refreshToken)

\* the client sends the logout it was just answered once more
RepeatLogout(p) ==
    /\ FirstFree(p)
    /\ resp.op = "logout" /\ resp.status = 200
    /\ LogoutAuth(p, resp.request.authorization, resp.request.refreshToken)

\* the client takes the response; nothing else moves while one is on the wire
Receive ==
    /\ resp # NoResponse
    /\ resp' = NoResponse
    /\ UNCHANGED <<users, refresh_tokens, now, nextUserId, nextTokenId, nextSecret,
                   frame, accessTokens, rotations>>

Ready == resp = NoResponse

\* a request in flight resumes after an awaited call
ContinueRegister(p) ==
    \/ \E salt \in Salts : RegisterCreateUser(p, salt)
    \/ RegisterCreateToken(p)

ContinueRefresh(p) ==
    \/ RefreshFindUser(p)
    \/ RefreshRevoke(p)
    \/ RefreshCreate(p)

ContinueLogout(p) ==
    \/ LogoutRevoke(p)
    \/ LogoutRevokeAll(p)

Environment ==
    \/ Tick
    \/ CleanupExpired

NoneInFlight == \A q \in Procs : frame[q] = Idle

\* every request in flight is a refresh
OnlyRefreshInFlight ==
    \A q \in Procs : frame[q].pc \in {"idle", "refresh_user", "refresh_revoke", "refresh_create"}

\* the emails are interchangeable: the first account registered is EmailA's
Emails == IF users = {} THEN OneAccount ELSE TwoAccounts

Quiet == Ready /\ NoneInFlight

\* the step is none of the migration script, and passes no rate limiter
NoMigration == UNCHANGED <<MIGRATIONS_DIR, migrations, schema, runner>>

NoLimiter == UNCHANGED <<hits, failed, failedRefresh>> /\ NoMigration

\* One account; a refresh may start while another refresh is in flight, every
\* other request starts when none is.
Next ==
    \/ \E p \in Procs : Ready /\ OnlyRefreshInFlight /\ StartRefresh(p) /\ NoLimiter
    \/ \E p \in Procs : Quiet /\ StartRegister(p, OneAccount) /\ NoLimiter
    \/ \E p \in Procs : Quiet /\ StartLogin(p, OneAccount) /\ NoLimiter
    \/ \E p \in Procs : Quiet /\ StartLogout(p) /\ NoLimiter
    \/ \E p \in Procs : NoneInFlight /\ RepeatLogout(p) /\ NoLimiter
    \/ \E p \in Procs : Ready /\ ContinueRegister(p) /\ NoLimiter
    \/ \E p \in Procs : Ready /\ LoginCreateToken(p) /\ NoLimiter
    \/ \E p \in Procs : Ready /\ ContinueRefresh(p) /\ NoLimiter
    \/ \E p \in Procs : Ready /\ ContinueLogout(p) /\ NoLimiter
    \/ \E p \in Procs : Ready /\ Fail(p) /\ NoLimiter
    \/ Ready /\ Environment /\ NoLimiter
    \/ Receive /\ NoLimiter

Spec == Init /\ [][Next]_vars

\* One account, one request at a time.
NextSeq ==
    \/ \E p \in Procs : Quiet /\ StartRefresh(p) /\ NoLimiter
    \/ \E p \in Procs : Quiet /\ StartRegister(p, OneAccount) /\ NoLimiter
    \/ \E p \in Procs : Quiet /\ StartLogin(p, OneAccount) /\ NoLimiter
    \/ \E p \in Procs : Quiet /\ StartLogout(p) /\ NoLimiter
    \/ \E p \in Procs : NoneInFlight /\ RepeatLogout(p) /\ NoLimiter
    \/ \E p \in Procs : Ready /\ ContinueRegister(p) /\ NoLimiter
    \/ \E p \in Procs : Ready /\ LoginCreateToken(p) /\ NoLimiter
    \/ \E p \in Procs : Ready /\ ContinueRefresh(p) /\ NoLimiter
    \/ \E p \in Procs : Ready /\ ContinueLogout(p) /\ NoLimiter
    \/ \E p \in Procs : Ready /\ Fail(p) /\ NoLimiter
    \/ Ready /\ Environment /\ NoLimiter
    \/ Receive /\ NoLimiter

SpecSeq == Init /\ [][NextSeq]_vars

\* Two accounts, one request at a time: register, login and logout.
NextAccounts ==
    \/ \E p \in Procs : Quiet /\ StartRegister(p, Emails) /\ NoLimiter
    \/ \E p \in Procs : Quiet /\ StartLogin(p, Emails) /\ NoLimiter
    \/ \E p \in Procs : Quiet /\ StartLogout(p) /\ NoLimiter
    \/ \E p \in Procs : NoneInFlight /\ RepeatLogout(p) /\ NoLimiter
    \/ \E p \in Procs : Ready /\ ContinueRegister(p) /\ NoLimiter
    \/ \E p \in Procs : Ready /\ LoginCreateToken(p) /\ NoLimiter
    \/ \E p \in Procs : Ready /\ ContinueLogout(p) /\ NoLimiter
    \/ \E p \in Procs : Ready /\ Fail(p) /\ NoLimiter
    \/ Ready /\ Environment /\ NoLimiter
    \/ Receive /\ NoLimiter

SpecAccounts == Init /\ [][NextAccounts]_vars

StartSessions(p) ==
    FirstFree(p) /\ \E header \in AuthHeaders : requireAuth(p, header)

\* Two accounts that can be deleted, one request at a time: register, login,
\* logout and the list of sessions.
NextSessions ==
    \/ \E p \in Procs : Quiet /\ nextUserId <= MaxUsers /\ StartRegister(p, Emails) /\ NoLimiter
    \/ \E p \in Procs : Quiet /\ StartLogin(p, Emails) /\ NoLimiter
    \/ \E p \in Procs : Quiet /\ StartLogout(p) /\ NoLimiter
    \/ \E p \in Procs : Quiet /\ StartSessions(p) /\ NoLimiter
    \/ \E p \in Procs : Ready /\ ContinueRegister(p) /\ NoLimiter
    \/ \E p \in Procs : Ready /\ LoginCreateToken(p) /\ NoLimiter
    \/ \E p \in Procs : Ready /\ ContinueLogout(p) /\ NoLimiter
    \/ \E p \in Procs : Ready /\ getSessions(p) /\ NoLimiter
    \/ \E p \in Procs : Ready /\ Fail(p) /\ NoLimiter
    \/ Ready /\ Environment /\ NoLimiter
    \/ Ready /\ DeleteUser /\ NoLimiter
    \/ Receive /\ NoLimiter

SpecSessions == Init /\ [][NextSessions]_vars

\* One account, one request at a time, with the sweep between any two steps:
\* register, login, refresh, logout and the list of sessions.
NextSweep ==
    \/ \E p \in Procs : Quiet /\ StartRefresh(p) /\ NoLimiter
    \/ \E p \in Procs : Quiet /\ StartRegister(p, OneAccount) /\ NoLimiter
    \/ \E p \in Procs : Quiet /\ StartLogin(p, OneAccount) /\ NoLimiter
    \/ \E p \in Procs : Quiet /\ StartLogout(p) /\ NoLimiter
    \/ \E p \in Procs : Quiet /\ StartSessions(p) /\ NoLimiter
    \/ \E p \in Procs : Ready /\ ContinueRegister(p) /\ NoLimiter
    \/ \E p \in Procs : Ready /\ LoginCreateToken(p) /\ NoLimiter
    \/ \E p \in Procs : Ready /\ ContinueRefresh(p) /\ NoLimiter
    \/ \E p \in Procs : Ready /\ ContinueLogout(p) /\ NoLimiter
    \/ \E p \in Procs : Ready /\ getSessions(p) /\ NoLimiter
    \/ \E p \in Procs : Ready /\ Fail(p) /\ NoLimiter
    \/ Ready /\ LateTick /\ NoLimiter
    \/ Ready /\ CleanupExpired /\ NoLimiter
    \/ Receive /\ NoLimiter

SpecSweep == Init /\ [][NextSweep]_vars

\* Two accounts, one request at a time, and an account may be deleted between
\* any two steps: register, login and refresh.
NextDeletion ==
    \/ \E p \in Procs : Quiet /\ StartRefresh(p) /\ NoLimiter
    \/ \E p \in Procs : Quiet /\ nextUserId <= MaxUsers
                            /\ StartRegister(p, Emails) /\ NoLimiter
    \/ \E p \in Procs : Quiet /\ StartLogin(p, Emails) /\ NoLimiter
    \/ \E p \in Procs : Ready /\ ContinueRegister(p) /\ NoLimiter
    \/ \E p \in Procs : Ready /\ LoginCreateToken(p) /\ NoLimiter
    \/ \E p \in Procs : Ready /\ ContinueRefresh(p) /\ NoLimiter
    \/ Ready /\ Tick /\ NoLimiter
    \/ Ready /\ DeleteUser /\ NoLimiter
    \/ Receive /\ NoLimiter

SpecDeletion == Init /\ [][NextDeletion]_vars

\* the last response sent is a logout's, or has been taken
LogoutAnswered == resp.op \in {"none", "logout"}

\* One account, one refresh at a time; a logout may arrive while the refresh
\* is in flight, and the refresh goes on while the logout's response is on
\* its way to the client.
NextLogoutRace ==
    \/ \E p \in Procs : Quiet /\ StartRegister(p, OneAccount) /\ NoLimiter
    \/ \E p \in Procs : Quiet /\ StartLogin(p, OneAccount) /\ NoLimiter
    \/ \E p \in Procs : Quiet /\ StartRefresh(p) /\ NoLimiter
    \/ \E p \in Procs : Ready /\ OnlyRefreshInFlight /\ StartLogout(p) /\ NoLimiter
    \/ \E p \in Procs : Ready /\ ContinueRegister(p) /\ NoLimiter
    \/ \E p \in Procs : Ready /\ LoginCreateToken(p) /\ NoLimiter
    \/ \E p \in Procs : LogoutAnswered /\ ContinueRefresh(p) /\ NoLimiter
    \/ \E p \in Procs : Ready /\ ContinueLogout(p) /\ NoLimiter
    \/ Ready /\ Tick /\ NoLimiter
    \/ Receive /\ NoLimiter

SpecLogoutRace == Init /\ [][NextLogoutRace]_vars

\* every request in flight is a register
OnlyRegisterInFlight ==
    \A q \in Procs : frame[q].pc \in {"idle", "register_user", "register_token"}

\* Two accounts; a register may arrive while another register is in flight,
\* a login when nothing is.
NextRegisterRace ==
    \/ \E p \in Procs : Ready /\ OnlyRegisterInFlight /\ nextUserId <= MaxUsers
                            /\ StartRegister(p, Emails) /\ NoLimiter
    \/ \E p \in Procs : Quiet /\ StartLogin(p, Emails) /\ NoLimiter
    \/ \E p \in Procs : Ready /\ ContinueRegister(p) /\ NoLimiter
    \/ \E p \in Procs : Ready /\ LoginCreateToken(p) /\ NoLimiter
    \/ Ready /\ Tick /\ NoLimiter
    \/ Receive /\ NoLimiter

SpecRegisterRace == Init /\ [][NextRegisterRace]_vars

\* Emails that differ in letter case only, one request at a time: register
\* and login.
NextCase ==
    \/ \E p \in Procs : Quiet /\ nextUserId <= MaxUsers
                            /\ StartRegister(p, CaseVariants) /\ NoLimiter
    \/ \E p \in Procs : Quiet /\ StartLogin(p, CaseVariants) /\ NoLimiter
    \/ \E p \in Procs : Ready /\ ContinueRegister(p) /\ NoLimiter
    \/ \E p \in Procs : Ready /\ LoginCreateToken(p) /\ NoLimiter
    \/ Ready /\ Tick /\ NoLimiter
    \/ Receive /\ NoLimiter

SpecCase == Init /\ [][NextCase]_vars

(***************************************************************************)
(* middleware/rateLimiting: express-rate-limit with its memory store.  A   *)
(* limiter counts a request when it arrives and answers 429 with its       *)
(* message once the count of the key exceeds max; with                     *)
(* skipSuccessfulRequests it takes the hit back when the response has      *)
(* finished with a status below 400.  All requests come from one key.  A   *)
(* count above max is not counted further (nothing tells such counts       *)
(* apart).                                                                 *)
(***************************************************************************)
generalRateLimit ==
    [name |-> "general", max |-> RATE_LIMIT_MAX_REQUESTS,
     code |-> "RATE_LIMIT_EXCEEDED", skipSuccessfulRequests |-> FALSE]

\* faulty variant: authRateLimit without skipSuccessfulRequests
authRateLimit_counting ==
    [name |-> "auth", max |-> LOGIN_RATE_LIMIT_MAX,
     code |-> "AUTH_RATE_LIMIT_EXCEEDED", skipSuccessfulRequests |-> FALSE]

authRateLimit ==
    [name |-> "auth", max |-> LOGIN_RATE_LIMIT_MAX,
     code |-> "AUTH_RATE_LIMIT_EXCEEDED", skipSuccessfulRequests |-> TRUE]

registrationRateLimit ==
    [name |-> "registration", max |-> 3,
     code |-> "REGISTRATION_RATE_LIMIT_EXCEEDED", skipSuccessfulRequests |-> FALSE]

\* the store's increment
Hit(limiter, h) ==
    [h EXCEPT ![limiter.name] = IF @ > limiter.max THEN @ ELSE @ + 1]

\* faulty variant: the limit is compared one too high
Exceeded_lenient(limiter, h) == h[limiter.name] > limiter.max + 1

\* totalHits > max
Exceeded(limiter, h) == h[limiter.name] > limiter.max

\* the limiter's handler: 429 with its message; the controller is not called
TooManyRequests(p, op, request, limiter) ==
    /\ Reply(p, Error(op, request, 429, limiter.code))
    /\ UNCHANGED <<users, refresh_tokens, now, nextUserId, nextTokenId, nextSecret,
                   accessTokens, rotations>>

\* app.use(generalRateLimit), then the route's limiter, then the controller
Limited(p, op, request, limiter, controller) ==
    LET h1 == Hit(generalRateLimit, hits)
        h2 == Hit(limiter, h1)
    IN  /\ frame[p] = Idle
        /\ UNCHANGED <<failed, failedRefresh>> /\ NoMigration
        /\ IF Exceeded(generalRateLimit, h1)
             THEN hits' = h1 /\ TooManyRequests(p, op, request, generalRateLimit)
           ELSE IF Exceeded(limiter, h2)
             THEN hits' = h2 /\ TooManyRequests(p, op, request, limiter)
           ELSE hits' = h2 /\ controller

\* faulty variant: the limiter mounted behind the lookup of the email
LimitedLogin_late(p, email, password) ==
    IF User_findByEmail(email).found
    THEN Limited(p, "login", [email |-> email], authRateLimit, LoginFind(p, email, password))
    ELSE /\ LoginFind(p, email, password)
         /\ hits' = Hit(authRateLimit, Hit(generalRateLimit, hits))
         /\ UNCHANGED <<failed, failedRefresh>> /\ NoMigration

LimitedRegister(p, email, password) ==
    Limited(p, "register", [email |-> email], registrationRateLimit,
            RegisterFind(p, email, password))

LimitedLogin(p, email, password) ==
    Limited(p, "login", [email |-> email], authRateLimit, LoginFind(p, email, password))

\* faulty: refresh counted in another store than login
LimitedRefresh_ownStore(p, refreshToken) ==
    Limited(p, "refresh", [refreshToken |-> refreshToken],
            [authRateLimit EXCEPT !.name = "registration"],
            RefreshFind(p, refreshToken))

LimitedRefresh(p, refreshToken) ==
    Limited(p, "refresh", [refreshToken |-> refreshToken], authRateLimit,
            RefreshFind(p, refreshToken))

\* the response has finished: a limiter with skipSuccessfulRequests that
\* counted the request takes the hit back if the status is below 400
Finish ==
    LET counted == resp.op \in {"login", "refresh"} /\ resp.code # generalRateLimit.code
        successful == resp.status < 400
    IN  /\ resp # NoResponse
        /\ resp' = NoResponse
        /\ hits' = IF counted /\ successful /\ authRateLimit.skipSuccessfulRequests
                   THEN [hits EXCEPT !.auth = @ - 1]
                   ELSE hits
        /\ failed' = IF counted /\ ~successful /\ failed <= authRateLimit.max
                     THEN failed + 1
                     ELSE failed
        /\ failedRefresh' =
               IF counted /\ ~successful /\ failed <= authRateLimit.max /\ resp.op = "refresh"
               THEN failedRefresh + 1
               ELSE failedRefresh
        /\ UNCHANGED <<users, refresh_tokens, now, nextUserId, nextTokenId, nextSecret,
                       frame, accessTokens, rotations>>
        /\ NoMigration

\* windowMs has passed: the limiter's store forgets its counts
WindowReset(limiter) ==
    /\ hits[limiter.name] > 0
    /\ hits' = [hits EXCEPT ![limiter.name] = 0]
    /\ failed' = IF limiter.name = "auth" THEN 0 ELSE failed
    /\ failedRefresh' = IF limiter.name = "auth" THEN 0 ELSE failedRefresh
    /\ NoMigration
    /\ resp' = NoResponse
    /\ UNCHANGED <<users, refresh_tokens, now, nextUserId, nextTokenId, nextSecret,
                   frame, accessTokens, rotations>>

\* One account, one request at a time, behind the rate limiters: register,
\* login and refresh.
NextLimited ==
    \/ \E p \in Procs : Quiet /\ FirstFree(p) /\ \E email \in OneAccount, password \in Passwords :
                              LimitedRegister(p, email, password)
    \/ \E p \in Procs : Quiet /\ FirstFree(p) /\ \E email \in OneAccount, password \in Passwords :
                              LimitedLogin(p, email, password)
    \/ \E p \in Procs : Quiet /\ FirstFree(p) /\ \E refreshToken \in Secrets :
                              LimitedRefresh(p, refreshToken)
    \/ \E p \in Procs : Ready /\ ContinueRegister(p) /\ NoLimiter
    \/ \E p \in Procs : Ready /\ LoginCreateToken(p) /\ NoLimiter
    \/ \E p \in Procs : Ready /\ ContinueRefresh(p) /\ NoLimiter
    \/ \E p \in Procs : Ready /\ Fail(p) /\ NoLimiter
    \/ \E limiter \in {generalRateLimit, authRateLimit, registrationRateLimit} :
           Quiet /\ WindowReset(limiter)
    \/ Finish

SpecLimited == Init /\ [][NextLimited]_vars

(***************************************************************************)
(* utils/auth called on its own: a slot holds the token that               *)
(* generateAccessToken returned for some claims, or the digest that        *)
(* hashPassword returned for some password, and the response is the result *)
(* of the verification called last.                                        *)
(***************************************************************************)
Claims == {[userId |-> id, email |-> email] : id \in 1..MaxUsers, email \in {EmailA, EmailB}}

PasswordInputs == Passwords \cup {EmailA, << >>}

StoresUnchanged ==
    UNCHANGED <<users, refresh_tokens, nextUserId, nextTokenId, nextSecret,
                accessTokens, rotations, hits, failed, failedRefresh,
                MIGRATIONS_DIR, migrations, schema, runner>>

Result(op, request, result) ==
    [op |-> op, request |-> request, status |-> 0, code |-> "NONE", result |-> result]

SignAccessToken(p, claims) ==
    /\ Goto(p, [pc |-> "signed", claims |-> claims, signedAt |-> now,
                token |-> generateAccessToken(claims, now)])
    /\ now' = now
    /\ StoresUnchanged

VerifyIssuedToken(p) ==
    /\ frame[p].pc = "signed"
    /\ resp' = Result("verifyAccessToken",
                      [issued |-> TRUE, claims |-> frame[p].claims,
                       signedAt |-> frame[p].signedAt],
                      verifyAccessToken(frame[p].token, now))
    /\ UNCHANGED <<frame, now>>
    /\ StoresUnchanged

VerifyForeignToken(token) ==
    /\ resp' = Result("verifyAccessToken", [issued |-> FALSE, token |-> token],
                      verifyAccessToken(token, now))
    /\ UNCHANGED <<frame, now>>
    /\ StoresUnchanged

HashPassword(p, password, salt) ==
    /\ Goto(p, [pc |-> "hashed", password |-> password,
                hash |-> hashPassword(password, salt)])
    /\ now' = now
    /\ StoresUnchanged

VerifyPassword(p, password) ==
    /\ frame[p].pc = "hashed"
    /\ resp' = Result("verifyPassword",
                      [hashed |-> frame[p].password, given |-> password,
                       hash |-> frame[p].hash],
                      verifyPassword(frame[p].hash, password))
    /\ UNCHANGED <<frame, now>>
    /\ StoresUnchanged

NextUtils ==
    \/ \E p \in Procs, claims \in Claims : SignAccessToken(p, claims)
    \/ \E p \in Procs : VerifyIssuedToken(p)
    \/ \E token \in {Malformed, Forged} : VerifyForeignToken(token)
    \/ \E p \in Procs, password \in PasswordInputs, salt \in Salts :
           HashPassword(p, password, salt)
    \/ \E p \in Procs, password \in PasswordInputs : VerifyPassword(p, password)
    \/ Tick /\ NoLimiter

SpecUtils == Init /\ [][NextUtils]_vars

(***************************************************************************)
(* Refresh rotation                                                        *)
(***************************************************************************)
\* slot p takes the first step of a request of the route, which either
\* answers it or suspends at an awaited call
FirstStep(p, route) ==
    /\ frame[p] = Idle
    /\ IF frame'[p] = Idle THEN resp'.op = route ELSE Route(frame'[p].pc) = route

\* the body of the request whose first step slot p takes
Request(p) == IF frame'[p] = Idle THEN resp'.request ELSE frame'[p].request

InvalidRefreshToken(refreshToken) ==
    Error("refresh", [refreshToken |-> refreshToken], 401, "INVALID_REFRESH_TOKEN")

\* the records a refresh created, and the record stored for a secret
RecordsOf(refreshToken) ==
    {r \in refresh_tokens : r.token_hash = hashRefreshToken(refreshToken)}

HasActiveRecord(refreshToken) ==
    \E r \in RecordsOf(refreshToken) : r.revoked_at = NULL /\ r.expires_at > now

\* C1: with one request at a time, a secret is rotated at most once; once a
\* refresh of a secret has succeeded, every later refresh of it is answered
\* 401 INVALID_REFRESH_TOKEN; and the secret a refresh returned is accepted
\* on its first presentation while its record is unexpired and unrevoked, the
\* rotation then returning a secret never issued before.
C1_SequentialRotation ==
    /\ [](\A s \in DOMAIN rotations : rotations[s] <= 1)
    /\ [][\A p \in Procs :
            /\ FirstStep(p, "refresh") => \A s \in {Request(p).refreshToken} :
                /\ (s \in DOMAIN rotations /\ RefreshFind(p, s))
                       => resp' = InvalidRefreshToken(s)
                /\ (/\ s \notin DOMAIN rotations
                    /\ \E r \in RecordsOf(s) : r.parent # 0
                    /\ HasActiveRecord(s)
                    /\ RefreshFind(p, s))
                       => /\ frame'[p].pc = "refresh_user"
                          /\ frame'[p].storedToken \in RecordsOf(s)
            /\ (/\ frame[p].pc = "refresh_create"
                /\ RefreshCreate(p)
                /\ CanInsertToken(frame[p].user))
                   => /\ resp'.op = "refresh" /\ resp'.status = 200
                      /\ resp'.refreshToken \notin Secrets
                      /\ rotations' = Bump(rotations, frame[p].request.refreshToken)
       ]_vars

\* a secret returned by a refresh was itself rotated and is then replayed
C1_Witness ==
    \E s \in DOMAIN rotations :
        /\ resp = InvalidRefreshToken(s)
        /\ rotations[s] = 1
        /\ \E r \in RecordsOf(s) : r.parent # 0 /\ r.revoked_at # NULL

\* C2: of the refresh calls that present one secret, whatever their
\* interleaving, at most one succeeds, and no two records are issued from the
\* same presented record.
C2_OneRotationPerSecret ==
    /\ \A s \in DOMAIN rotations : rotations[s] <= 1
    /\ \A r1, r2 \in refresh_tokens :
           (r1.parent # 0 /\ r1.parent = r2.parent) => r1 = r2

\* C3: among the records that descend from one register or login, at most
\* one is active.
C3_SingleChain ==
    \A r1, r2 \in refresh_tokens :
        (r1.root = r2.root /\ IsActive(r1, now) /\ IsActive(r2, now)) => r1 = r2

\* C4: a refresh whose secret has no unrevoked, unexpired record (never
\* issued, expired, rotated or revoked) is answered 401 INVALID_REFRESH_TOKEN,
\* issues nothing and changes neither table, so that an active record issued
\* from the replayed one stays active.
C4_NoActiveRecord ==
    [][\A p \in Procs : FirstStep(p, "refresh") =>
        \A s \in {Request(p).refreshToken} \ {NoSecret} :
          (~HasActiveRecord(s) /\ RefreshFind(p, s))
              => /\ resp' = InvalidRefreshToken(s)
                 /\ UNCHANGED <<users, refresh_tokens, nextTokenId, nextSecret,
                                accessTokens, rotations>>
                 /\ \A r \in RecordsOf(s), c \in refresh_tokens :
                        (c.parent = r.id /\ IsActive(c, now))
                            => (c \in refresh_tokens' /\ IsActive(c, now'))
      ]_vars

\* the replay of a rotated secret is refused while the record issued from it
\* is active
C4_Witness ==
    \E s \in Secrets :
        /\ resp = InvalidRefreshToken(s)
        /\ \E r \in RecordsOf(s), c \in refresh_tokens :
               r.revoked_at # NULL /\ c.parent = r.id /\ IsActive(c, now)

\* C5: a record created by a refresh exists only when the record that refresh
\* presented is revoked, and a refresh that has revoked the presented record
\* and not yet created the new one leaves no active record in the chain.
C5_RevokeBeforeIssue ==
    /\ \A c, r \in refresh_tokens : c.parent = r.id => r.revoked_at # NULL
    /\ \A p \in Procs :
           frame[p].pc = "refresh_create"
               => ~\E r \in refresh_tokens :
                      r.root = frame[p].storedToken.root /\ IsActive(r, now)

(***************************************************************************)
(* Register and login                                                      *)
(***************************************************************************)
\* a request body that passes the schema and the two validators of register
ValidRegistration(email, password) ==
    registerSchema(email, password) /\ validateEmail(email) /\ validatePassword(password)

EmailTaken(email) == \E u \in users : u.email = email

\* the account's records that a lookup at time t would return
ActiveSessions(rows, userId, t) ==
    {r \in rows : r.user_id = userId /\ r.revoked_at = NULL /\ r.expires_at > t}

\* what a successful register or login hands out: an access token that
\* verifies to the account, the secret of the one record added, and the
\* account view
HandsOutSession(user) ==
    /\ verifyAccessToken(resp'.accessToken, now).found
    /\ verifyAccessToken(resp'.accessToken, now).userId = user.id
    /\ \E r \in refresh_tokens' \ refresh_tokens :
           /\ refresh_tokens' = refresh_tokens \cup {r}
           /\ r.token_hash = hashRefreshToken(resp'.refreshToken)
           /\ r.user_id = user.id /\ IsActive(r, now)
    /\ resp'.user = [id |-> user.id, email |-> user.email]

C7_InvalidCredentials ==
    [][\A p \in Procs : FirstStep(p, "login") =>
        \A email \in {Request(p).email}, password \in Passwords :
          (/\ loginSchema(email, password)
           /\ \/ ~EmailTaken(email)
              \/ \E u \in users : u.email = email /\ u.password_hash.of # password
           /\ LoginFind(p, email, password))
              => /\ resp' = Error("login", [email |-> email], 401, "INVALID_CREDENTIALS")
                 /\ UNCHANGED <<users, refresh_tokens, nextUserId, nextTokenId,
                                nextSecret, accessTokens>>
      ]_vars

\* a wrong password for a registered email has just been refused while the
\* other email is unknown
C7_Witness ==
    /\ resp = Error("login", [email |-> EmailA], 401, "INVALID_CREDENTIALS")
    /\ EmailTaken(EmailA) /\ ~EmailTaken(EmailB)

\* C8: a successful login adds one active record of the account and leaves
\* every record that existed unchanged, so the account's active sessions grow
\* by one and every other account's stay as they were.
C8_LoginKeepsSessions ==
    [][\A p \in Procs :
          (frame[p].pc = "login_token" /\ LoginCreateToken(p) /\ resp'.status = 200)
              => /\ refresh_tokens \subseteq refresh_tokens'
                 /\ HandsOutSession(frame[p].user)
                 /\ \A u \in users :
                       Cardinality(ActiveSessions(refresh_tokens', u.id, now')) =
                           Cardinality(ActiveSessions(refresh_tokens, u.id, now))
                               + (IF u.id = frame[p].user.id THEN 1 ELSE 0)
      ]_vars

\* the second login of a registered account has succeeded: three sessions
C8_Witness ==
    /\ resp.op = "login" /\ resp.status = 200
    /\ Cardinality(ActiveSessions(refresh_tokens, resp.user.id, now)) = 3

(***************************************************************************)
(* Logout                                                                  *)
(***************************************************************************)
\* the step sets revoked_at to the current time on the records in S and
\* changes no other record
RevokesExactly(S) ==
    /\ \A r \in S : [r EXCEPT !.revoked_at = now] \in refresh_tokens'
    /\ \A r \in refresh_tokens \ S : r \in refresh_tokens'
    /\ Cardinality(refresh_tokens') = Cardinality(refresh_tokens)

Unrevoked(rows) == {r \in rows : r.revoked_at = NULL}

RecordsOfAccount(userId) == {r \in refresh_tokens : r.user_id = userId}

\* the records of the accounts other than userId are what they were
OtherAccountsUnchanged(userId) ==
    {r \in refresh_tokens : r.user_id # userId} = {r \in refresh_tokens' : r.user_id # userId}

\* C9 as amended: a logout without a valid access token that carries a secret
\* revokes the unrevoked record of that secret and changes no other record; a
\* logout with a valid access token revokes the record of the secret it
\* carries, whichever account owns it, and then every unrevoked record of the
\* caller's account, after which the account has no active record, and it
\* changes no other record.
C9_LogoutEffect ==
    [][\A p \in Procs :
          /\ FirstStep(p, "logout") =>
                \A h \in {Request(p).authorization},
                   s \in {Request(p).refreshToken} \ {NoSecret} :
                    (~bearerPayload(h).found /\ LogoutAuth(p, h, s))
                        => /\ RevokesExactly(Unrevoked(RecordsOf(s)))
                           /\ resp'.op = "logout" /\ resp'.status = 200
          /\ (frame[p].pc = "logout_revoke" /\ LogoutRevoke(p))
                => RevokesExactly(Unrevoked(RecordsOf(frame[p].request.refreshToken)))
          /\ (frame[p].pc = "logout_all" /\ LogoutRevokeAll(p))
                => /\ RevokesExactly(Unrevoked(RecordsOfAccount(frame[p].user.id)))
                   /\ ActiveSessions(refresh_tokens', frame[p].user.id, now') = {}
                   /\ OtherAccountsUnchanged(frame[p].user.id)
                   /\ resp'.op = "logout" /\ resp'.status = 200
      ]_vars

\* an authenticated logout has ended the caller's sessions and left the other
\* account's session as it was
C9_Witness ==
    /\ resp.op = "logout" /\ resp.status = 200
    /\ bearerPayload(resp.request.authorization).found
    /\ LET caller == bearerPayload(resp.request.authorization).userId
       IN  /\ \E r \in RecordsOfAccount(caller) : r.revoked_at = now
           /\ Unrevoked(RecordsOfAccount(caller)) = {}
           /\ \E r \in refresh_tokens : r.user_id # caller /\ IsActive(r, now)

\* C9 as claimed: a logout without a valid access token that carries a secret
\* revokes the record of that secret and changes no other record; no step of a
\* logout with a valid access token changes a record of another account, and
\* when it ends the caller's account has no active record.
C9_LogoutOtherAccounts ==
    [][\A p \in Procs :
          /\ FirstStep(p, "logout") =>
                \A h \in {Request(p).authorization},
                   s \in {Request(p).refreshToken} \ {NoSecret} :
                    (~bearerPayload(h).found /\ LogoutAuth(p, h, s))
                        => RevokesExactly(Unrevoked(RecordsOf(s)))
          /\ (/\ frame[p].pc \in {"logout_revoke", "logout_all"}
              /\ frame[p].user.found
              /\ (LogoutRevoke(p) \/ LogoutRevokeAll(p)))
                => /\ OtherAccountsUnchanged(frame[p].user.id)
                   /\ frame'[p] = Idle
                         => ActiveSessions(refresh_tokens', frame[p].user.id, now') = {}
      ]_vars

\* C10: once a logout that carried a secret has been answered 200, no record
\* of that secret is unrevoked, so that revoking by that secret again, at any
\* later time, changes nothing; and the same logout sent again right after is
\* answered 200 without any of its steps changing a record.
C10_LogoutIdempotent ==
    /\ []((resp.op = "logout" /\ resp.status = 200
             /\ resp.request.refreshToken # NoSecret)
            => /\ Unrevoked(RecordsOf(resp.request.refreshToken)) = {}
               /\ \A t \in now..(MaxTime + 1) :
                     RefreshToken_revokeByTokenHash(
                         hashRefreshToken(resp.request.refreshToken), t) = refresh_tokens)
    /\ [][\A p \in Procs :
            /\ (/\ resp.op = "logout" /\ resp.status = 200
                /\ resp.request.refreshToken # NoSecret
                /\ LogoutAuth(p, resp.request.authorization, resp.request.refreshToken))
                   => /\ UNCHANGED refresh_tokens
                      /\ frame'[p] = Idle => (resp'.op = "logout" /\ resp'.status = 200)
            /\ (/\ frame[p].pc \in {"logout_revoke", "logout_all"}
                /\ frame[p].again
                /\ frame[p].request.refreshToken # NoSecret
                /\ (LogoutRevoke(p) \/ LogoutRevokeAll(p)))
                   => /\ UNCHANGED refresh_tokens
                      /\ frame'[p] = Idle => (resp'.op = "logout" /\ resp'.status = 200)
       ]_vars

\* the second of two identical authenticated logouts has revoked by the
\* secret once more, after the clock moved on
C10_Witness ==
    \E p \in Procs :
        /\ frame[p].pc = "logout_all" /\ frame[p].again
        /\ \E r \in RecordsOf(frame[p].request.refreshToken) :
               r.revoked_at # NULL /\ r.revoked_at < now

\* C11: every logout that is answered outside the handler's catch block is
\* answered 200, whatever secret and whatever Authorization header it
\* carried, and no logout is ever answered with an authentication error: the
\* only other answer is the catch block's 500 INTERNAL_ERROR.
C11_LogoutSucceeds ==
    /\ [](resp.op = "logout" => /\ resp.status \in {200, 500}
                                /\ resp.code \in {"NONE", "INTERNAL_ERROR"})
    /\ [][/\ (resp'.op = "logout" /\ ~\E q \in Procs : Fail(q))
               => resp'.status = 200 /\ resp'.code = "NONE"
          /\ \A p \in Procs : FirstStep(p, "logout") =>
                \A h \in AuthHeaders, s \in Secrets :
                    (LogoutAuth(p, h, s) /\ frame'[p] = Idle)
                        => resp'.status = 200 /\ resp'.code = "NONE"
       ]_vars

\* a logout that carried a valid access token of a deleted account and the
\* secret of a record that is gone has been answered 200
C11_Witness ==
    /\ resp.op = "logout" /\ resp.status = 200
    /\ resp.request.refreshToken # NoSecret
    /\ RecordsOf(resp.request.refreshToken) = {}
    /\ bearerPayload(resp.request.authorization).found
    /\ ~User_findById(bearerPayload(resp.request.authorization).userId).found

(***************************************************************************)
(* Sessions                                                                *)
(***************************************************************************)
\* session a was created after session b: at a later time, or within the
\* same unit of the clock by a later INSERT
Newer(a, b) == a.createdAt > b.createdAt \/ (a.createdAt = b.createdAt /\ a.id > b.id)

\* C12: the list of sessions answered to an authenticated account holds
\* exactly the account's records that are unrevoked and unexpired when the
\* list is read, each once, newest first, each with the fields id, createdAt
\* and expiresAt and no other; total is their number.
C12_ListSessions ==
    [][\A p \in Procs : (frame[p].pc = "sessions_find" /\ getSessions(p)) =>
          LET sessions == resp'.sessions
              account == frame[p].request.authorization.token.userId
              active == ActiveSessions(refresh_tokens, account, now)
          IN  /\ resp'.op = "sessions" /\ resp'.status = 200
              /\ frame[p].user.id = account
              /\ {sessions[i] : i \in 1..Len(sessions)} =
                     {[id |-> r.id, createdAt |-> r.created_at, expiresAt |-> r.expires_at] :
                          r \in active}
              /\ Len(sessions) = Cardinality(active)
              /\ \A i, j \in 1..Len(sessions) : i < j => Newer(sessions[i], sessions[j])
              /\ \A i \in 1..Len(sessions) :
                     DOMAIN sessions[i] = {"id", "createdAt", "expiresAt"}
              /\ resp'.total = Len(sessions)
              /\ UNCHANGED <<users, refresh_tokens>>
      ]_vars

\* an account with two sessions has been answered both, the newer first,
\* while another account has a session of its own
C12_Witness ==
    /\ resp.op = "sessions" /\ resp.status = 200
    /\ Len(resp.sessions) = 2
    /\ resp.sessions[1].id > resp.sessions[2].id
    /\ \E r \in refresh_tokens :
           /\ r.user_id # resp.request.authorization.token.userId
           /\ IsActive(r, now)

\* the sessions of the account that logout ended while the token was valid
EndedSessions(token) ==
    {r \in refresh_tokens : /\ r.user_id = token.userId
                            /\ r.revoked_at # NULL /\ token.iat <= r.revoked_at}

\* C13: (a) a list read while two sessions of the account are active holds
\* both, the later one first; (b) the last step of a logout that carried a
\* valid access token leaves no record of the account unrevoked; (c) after
\* that, a list request with an access token issued before the logout and
\* still unexpired passes requireAuth, and (d) is answered 200 with the
\* empty sequence.
C13_ScenarioD ==
    [][\A p \in Procs :
          /\ (frame[p].pc = "sessions_find" /\ getSessions(p)) =>
                /\ \A s1, s2 \in ActiveSessions(refresh_tokens, frame[p].user.id, now) :
                       s1.id < s2.id =>
                           \E i, j \in 1..Len(resp'.sessions) :
                               /\ i < j
                               /\ resp'.sessions[i].id = s2.id
                               /\ resp'.sessions[j].id = s1.id
                /\ Unrevoked(RecordsOfAccount(frame[p].user.id)) = {}
                       => resp' = SessionsResponse(frame[p].request, << >>)
          /\ (frame[p].pc = "logout_all" /\ LogoutRevokeAll(p)) =>
                /\ resp'.op = "logout" /\ resp'.status = 200
                /\ \A r \in refresh_tokens' :
                       r.user_id = frame[p].user.id => r.revoked_at # NULL
          /\ FirstStep(p, "sessions") =>
                \A h \in {Request(p).authorization} :
                    (/\ bearerPayload(h).found
                     /\ User_findById(h.token.userId).found
                     /\ requireAuth(p, h))
                        => /\ frame'[p].pc = "sessions_find"
                           /\ frame'[p].user.id = h.token.userId
      ]_vars

\* an account's three sessions (register and two logins) were ended by one
\* authenticated logout, and the list read afterwards with the access token of
\* the second login is empty
C13_Witness ==
    /\ resp.op = "sessions" /\ resp.status = 200 /\ resp.sessions = << >>
    /\ bearerPayload(resp.request.authorization).found
    /\ Cardinality(EndedSessions(resp.request.authorization.token)) = 3
    /\ \A r1, r2 \in EndedSessions(resp.request.authorization.token) :
           r1.revoked_at = r2.revoked_at

(***************************************************************************)
(* Access tokens                                                           *)
(***************************************************************************)
\* the header carries a token signed with the service's key, for its issuer
\* and audience, that has not expired at time t
WellSigned(header, t) ==
    /\ header.bearer
    /\ header.token.key = JWT_SECRET
    /\ header.token.iss = "habit-tracker"
    /\ header.token.aud = "habit-tracker-users"
    /\ t < header.token.exp

\* requireAuth lets the request of slot p through to its handler
Accepted(p) == frame'[p].pc = "sessions_find"

OverLimit(limiter) ==
    IF limiter.name = "general"
    THEN Exceeded(generalRateLimit, Hit(generalRateLimit, hits))
    ELSE Exceeded(limiter, Hit(limiter, Hit(generalRateLimit, hits)))

\* the step changes nothing but the response and the limiters' counts
HandlerNotReached(p) ==
    /\ frame'[p] = Idle
    /\ UNCHANGED <<users, refresh_tokens, nextUserId, nextTokenId, nextSecret,
                   accessTokens, rotations>>

\* C15: once five calls counted by authRateLimit have failed in its window,
\* a login from the key is answered 429 with a rate-limit code (the one of
\* authRateLimit unless the general limit is exceeded as well), whatever its
\* email and password, and the controller is not reached.
C15_SixthAttemptRejected ==
    [][\A p \in Procs : FirstStep(p, "login") =>
          \A email \in {Request(p).email}, password \in Passwords :
              (failed >= 5 /\ LimitedLogin(p, email, password))
                  => /\ resp'.status = 429
                     /\ resp'.code = IF OverLimit(generalRateLimit)
                                     THEN "RATE_LIMIT_EXCEEDED"
                                     ELSE "AUTH_RATE_LIMIT_EXCEEDED"
                     /\ HandlerNotReached(p)
      ]_vars

\* the sixth login, for a registered email, has been refused by authRateLimit
\* after five failures
C15_Witness ==
    /\ resp = Error("login", [email |-> EmailA], 429, "AUTH_RATE_LIMIT_EXCEEDED")
    /\ EmailTaken(EmailA)
    /\ failed = 5 /\ hits.auth = 6

C17_RejectedBeforeEngine ==
    [][\A p \in Procs :
          \A route \in {[op |-> "register", limiter |-> registrationRateLimit],
                        [op |-> "login", limiter |-> authRateLimit],
                        [op |-> "refresh", limiter |-> authRateLimit]} :
              (FirstStep(p, route.op) /\ hits' # hits) =>
                  /\ resp'.status = 429
                        <=> (OverLimit(generalRateLimit) \/ OverLimit(route.limiter))
                  /\ resp'.status = 429 =>
                        /\ resp' = Error(route.op, Request(p), 429,
                                         IF OverLimit(generalRateLimit)
                                         THEN generalRateLimit.code
                                         ELSE route.limiter.code)
                        /\ HandlerNotReached(p)
      ]_vars

\* a refresh that presents the secret of an active record has been refused
\* by authRateLimit, and the record is still active
C17_Witness ==
    /\ resp.op = "refresh" /\ resp.status = 429
    /\ resp.code = "AUTH_RATE_LIMIT_EXCEEDED"
    /\ HasActiveRecord(resp.request.refreshToken)

Revocation(p) ==
    \/ frame[p].pc = "refresh_revoke" /\ RefreshRevoke(p)
    \/ frame[p].pc = "logout_revoke" /\ LogoutRevoke(p)
    \/ frame[p].pc = "logout_all" /\ LogoutRevokeAll(p)

\* C20: a step that calls revoke, revokeByTokenHash or revokeAllForUser
\* leaves every record that is already revoked as it was, its revoked_at
\* included.
C20_RevocationIdempotent ==
    [][\A p \in Procs : Revocation(p) =>
          \A r \in refresh_tokens : r.revoked_at # NULL => r \in refresh_tokens'
      ]_vars

(***************************************************************************)
(* Lookup in the ledger                                                    *)
(***************************************************************************)
\* the secrets that have a record, and of those the ones with a record that
\* is revoked, and that is unrevoked and past its expiry
Issued == {s \in Secrets : RecordsOf(s) # {}}
Revoked == {s \in Issued : \A r \in RecordsOf(s) : r.revoked_at # NULL}
Expired == {s \in Issued : \A r \in RecordsOf(s) : r.revoked_at = NULL /\ r.expires_at <= now}

\* C21: in every state and for every secret, findByTokenHash of the secret's
\* hash returns a record exactly when some record has that hash, no
\* revoked_at and an expires_at after the current time, and then it returns
\* such a record; for a secret never issued, a revoked one and an expired one
\* it returns the same null; and refresh goes on with the record found, or
\* answers 401 INVALID_REFRESH_TOKEN when none is.
C21_FindByTokenHash ==
    /\ [](\A s \in Secrets \ {NoSecret} :
            LET found == RefreshToken_findByTokenHash(hashRefreshToken(s), now)
            IN  /\ found.found <=> \E r \in refresh_tokens :
                                      /\ r.token_hash = hashRefreshToken(s)
                                      /\ r.revoked_at = NULL
                                      /\ now < r.expires_at
                /\ found.found => /\ found \in refresh_tokens
                                  /\ found.token_hash = hashRefreshToken(s)
                                  /\ found.revoked_at = NULL /\ now < found.expires_at
                /\ ~found.found => found = NoRow
                /\ s \in (Secrets \ Issued) \cup Revoked \cup Expired => found = NoRow)
    /\ [][\A p \in Procs : FirstStep(p, "refresh") =>
            \A s \in {Request(p).refreshToken} \ {NoSecret} :
                RefreshFind(p, s) =>
                    LET found == RefreshToken_findByTokenHash(hashRefreshToken(s), now)
                    IN  IF found.found
                        THEN frame'[p].pc = "refresh_user" /\ frame'[p].storedToken = found
                        ELSE resp' = InvalidRefreshToken(s)
       ]_vars

\* one secret is expired, one is revoked, one was never issued, and a fourth
\* has an active record
C21_Witness ==
    /\ Expired # {} /\ Revoked # {}
    /\ \E s \in Secrets \ {NoSecret} : RecordsOf(s) = {}
    /\ \E s \in Issued : RefreshToken_findByTokenHash(hashRefreshToken(s), now).found

(***************************************************************************)
(* The sweep                                                               *)
(***************************************************************************)
\* the rows that a lookup at time t can return
ActiveRows(rows, t) == {r \in rows : IsActive(r, t)}

\* C22: a sweep deletes records and changes none, deletes no active record
\* and only records that are expired or revoked, and its row count is the
\* number of records it deleted; and, run between any two steps, it leaves
\* everything the operations read, now or later, as it was: the accounts, the
\* requests in flight, the result of findByTokenHash for every secret and of
\* findActiveByUserId for every account, and the active records that each of
\* the three revocations leaves behind.
C22_SweepIsSafe ==
    [][CleanupExpired =>
          /\ refresh_tokens' \subseteq refresh_tokens
          /\ \A r \in refresh_tokens : IsActive(r, now) => r \in refresh_tokens'
          /\ \A r \in refresh_tokens \ refresh_tokens' :
                 r.revoked_at # NULL \/ r.expires_at < now
          /\ RefreshToken_cleanupExpired_rowCount(now) =
                 Cardinality(refresh_tokens) - Cardinality(refresh_tokens')
          /\ UNCHANGED <<users, frame, now, nextUserId, nextTokenId, nextSecret>>
          /\ \A t \in now..(MaxTime + 1) :
                /\ \A s \in Secrets :
                      /\ RefreshToken_findByTokenHash(hashRefreshToken(s), t)' =
                             RefreshToken_findByTokenHash(hashRefreshToken(s), t)
                      /\ ActiveRows(RefreshToken_revokeByTokenHash(hashRefreshToken(s), t), t)' =
                             ActiveRows(RefreshToken_revokeByTokenHash(hashRefreshToken(s), t), t)
                /\ \A id \in 1..nextUserId :
                      /\ RefreshToken_findActiveByUserId(id, t)' =
                             RefreshToken_findActiveByUserId(id, t)
                      /\ ActiveRows(RefreshToken_revokeAllForUser(id, t), t)' =
                             ActiveRows(RefreshToken_revokeAllForUser(id, t), t)
                /\ \A id \in 1..nextTokenId :
                      ActiveRows(RefreshToken_revoke(id, t), t)' =
                          ActiveRows(RefreshToken_revoke(id, t), t)
      ]_vars

\* a sweep has run between the lookup and the revoke of a refresh whose
\* record had expired meanwhile: the record is gone
C22_Witness ==
    \E p \in Procs :
        /\ frame[p].pc = "refresh_revoke"
        /\ frame[p].storedToken.expires_at < now
        /\ \A r \in refresh_tokens : r.id # frame[p].storedToken.id

(***************************************************************************)
(* The secret and its record                                               *)
(***************************************************************************)
\* the record created together with a secret: the n-th secret generated goes
\* with the n-th INSERT
CreatedWith(s) == {r \in refresh_tokens : r.id = s[1]}

\* a step that answers register, login or refresh with a new secret
HandsOut(s) ==
    /\ s = Secret(nextSecret)
    /\ resp'.op \in {"register", "login", "refresh"}
    /\ resp'.status \in {200, 201}
    /\ resp'.refreshToken = s
    /\ nextSecret' = nextSecret + 1

\* C23: the hash of a secret is not the secret; a step that answers register,
\* login or refresh with a secret stores exactly one new record, under the
\* hash of that secret, which no other record has; and in every state the
\* hash computed again from an issued secret is the one its record was stored
\* under, no other record has it, and while that record is unrevoked and
\* unexpired findByTokenHash of the secret's hash returns exactly that record
\* and a refresh presenting the secret goes on with it.
C23_SecretFindsItsRecord ==
    /\ [](\A s \in Secrets \ {NoSecret} :
            /\ hashRefreshToken(s) # s
            /\ \A r \in CreatedWith(s) :
                  /\ r.token_hash = hashRefreshToken(s)
                  /\ RecordsOf(s) = {r}
                  /\ IsActive(r, now) =>
                        RefreshToken_findByTokenHash(hashRefreshToken(s), now) = r)
    /\ [][/\ \A s \in {Secret(nextSecret)} : HandsOut(s) =>
                /\ \E r \in refresh_tokens' \ refresh_tokens :
                      /\ refresh_tokens' \ refresh_tokens = {r}
                      /\ r.token_hash = hashRefreshToken(s)
                      /\ \A o \in refresh_tokens : o.token_hash # r.token_hash
                      /\ r.id = s[1]
          /\ \A p \in Procs : FirstStep(p, "refresh") =>
                \A s \in {Request(p).refreshToken} \ {NoSecret} :
                    \A r \in CreatedWith(s) :
                        IsActive(r, now) /\ RefreshFind(p, s) =>
                            frame'[p].pc = "refresh_user" /\ frame'[p].storedToken = r
       ]_vars

\* a refresh has looked up the secret that an earlier refresh returned and
\* has found the record stored with it, while another record is active too
C23_Witness ==
    \E p \in Procs :
        /\ frame[p].pc = "refresh_user"
        /\ frame[p].storedToken \in CreatedWith(frame[p].request.refreshToken)
        /\ frame[p].storedToken.parent # 0
        /\ \E o \in refresh_tokens :
              o.id # frame[p].storedToken.id /\ IsActive(o, now)

(***************************************************************************)
(* What a step may change of a stored record                               *)
(***************************************************************************)
\* C24: under register, login, refresh and logout in any interleaving, every
\* step of a request keeps every stored record (only the sweep removes any),
\* and every step leaves a record that it keeps with the same id, user_id,
\* token_hash, created_at and expires_at (so no expiry is extended); the one
\* field a step may change is revoked_at, which it sets to the current time;
\* and a new record never takes the id of a stored one.
C24_OnlyRevokedAtChanges ==
    [][/\ \A r \in refresh_tokens :
            /\ \A q \in refresh_tokens' :
                  q.id = r.id =>
                      /\ q = [r EXCEPT !.revoked_at = q.revoked_at]
                      /\ q.revoked_at # r.revoked_at => q.revoked_at = now
            /\ ~CleanupExpired => \E q \in refresh_tokens' : q.id = r.id
       /\ \A q1, q2 \in refresh_tokens' : q1.id = q2.id => q1 = q2
      ]_vars

\* a record created by a refresh was revoked by a logout at a later time than
\* its creation, and the record it replaced was revoked by the rotation
C24_Witness ==
    \E r, o \in refresh_tokens :
        /\ r.parent = o.id
        /\ o.revoked_at # NULL
        /\ r.revoked_at # NULL /\ r.revoked_at > r.created_at
        /\ resp.op = "logout" /\ resp.status = 200

(***************************************************************************)
(* Inactive records                                                        *)
(***************************************************************************)
\* the record a refresh in flight has looked up, as it is stored now
Presented(p) == {r \in refresh_tokens : r.id = frame[p].storedToken.id}

\* no step makes an inactive record active again
InactiveStaysInactive ==
    \A r \in refresh_tokens, q \in refresh_tokens' :
        (q.id = r.id /\ ~IsActive(r, now)) => ~IsActive(q, now')

\* C25: no step makes a revoked or expired record active again; a refresh
\* that presents a secret whose record is revoked or expired is answered 401
\* INVALID_REFRESH_TOKEN; and a refresh that has looked its record up goes
\* past its rotation only while no other request has revoked that record,
\* and is answered 200 only for a secret that no refresh was answered 200 for
\* before.
C25_InactiveIsTerminal ==
    [][/\ InactiveStaysInactive
       /\ \A p \in Procs : FirstStep(p, "refresh") =>
             \A s \in {Request(p).refreshToken} \ {NoSecret} :
                 (RefreshFind(p, s) /\ \A r \in RecordsOf(s) : ~IsActive(r, now))
                     => resp' = InvalidRefreshToken(s)
       /\ \A p \in Procs :
             (frame[p].pc = "refresh_revoke" /\ RefreshRevoke(p)) =>
                 \A r \in Presented(p) : r.revoked_at = NULL
       /\ \A p \in Procs :
             (frame[p].pc = "refresh_create" /\ RefreshCreate(p) /\ resp'.status = 200) =>
                 frame[p].request.refreshToken \notin DOMAIN rotations
      ]_vars

(***************************************************************************)
(* The rows a successful request adds                                      *)
(***************************************************************************)
\* the records and accounts that a step adds
AddedRecords == {r \in refresh_tokens' : \A o \in refresh_tokens : o.id # r.id}
AddedAccounts == {u \in users' : \A o \in users : o.id # u.id}

\* slot p's request creates its account and goes on
CreatesAccount(p) ==
    frame[p].pc = "register_user" /\ frame'[p].pc = "register_token"

\* slot p's register, login or refresh is answered with success
Succeeds(p) ==
    /\ frame[p].pc \in {"register_token", "login_token", "refresh_create"}
    /\ frame'[p] = Idle
    /\ resp'.op = Route(frame[p].pc)
    /\ resp'.status \in {200, 201}

\* C26: a register adds its one account, with the email of the request, in
\* the step that creates it and nothing else there; the step that answers a
\* register, login or refresh with success adds exactly one record and no
\* account and changes no stored record, and that record is active and owned
\* by the account the register created, by the account with the email that
\* logged in, or by the owner of the record the refresh presented; and no
\* other step adds an account or a record.
C26_RowsPersisted ==
    [][/\ \A p \in Procs : CreatesAccount(p) =>
             /\ AddedAccounts = {frame'[p].user}
             /\ users' = users \cup {frame'[p].user}
             /\ frame'[p].user.email = frame[p].request.email
             /\ refresh_tokens' = refresh_tokens
       /\ \A p \in Procs : Succeeds(p) =>
             /\ users' = users
             /\ \E r \in AddedRecords :
                   /\ AddedRecords = {r}
                   /\ refresh_tokens' = refresh_tokens \cup {r}
                   /\ IsActive(r, now')
                   /\ r.user_id = resp'.user.id
                   /\ \E u \in users : u.id = r.user_id /\ u.email = resp'.user.email
                   /\ CASE resp'.op = "register" ->
                             /\ r.user_id = frame[p].user.id
                             /\ frame[p].user.email = frame[p].request.email
                        [] resp'.op = "login" ->
                             User_findByEmail(frame[p].request.email).id = r.user_id
                        [] resp'.op = "refresh" ->
                             /\ r.user_id = frame[p].storedToken.user_id
                             /\ \A o \in Presented(p) : o.user_id = r.user_id
       /\ AddedAccounts # {} => \E p \in Procs : CreatesAccount(p)
       /\ AddedRecords # {} => \E p \in Procs : Succeeds(p)
      ]_vars

\* a refresh has been answered 200 with the secret of a new active record,
\* next to the revoked record it presented
C26_Witness ==
    /\ resp.op = "refresh" /\ resp.status = 200
    /\ \E r \in RecordsOf(resp.refreshToken), o \in refresh_tokens, u \in users :
          /\ IsActive(r, now) /\ r.parent = o.id /\ ~IsActive(o, now)
          /\ r.user_id = u.id /\ o.user_id = u.id

(***************************************************************************)
(* Accounts deleted out of band                                            *)
(***************************************************************************)
UserNotFound(request) == Error("refresh", request, 401, "USER_NOT_FOUND")

OwnerExists(r) == \E u \in users : u.id = r.user_id

\* C27: a refresh goes on to the account lookup only with a record found
\* active, whose account exists at that moment; the account lookup answers
\* 401 USER_NOT_FOUND exactly when the account of that record is gone by
\* then, and otherwise goes on to the rotation; the answer carries no access
\* token and no secret and the step adds no record and issues nothing; and
\* no other step answers a refresh with USER_NOT_FOUND.
C27_UserNotFound ==
    [][/\ \A p \in Procs :
             (FirstStep(p, "refresh") /\ frame'[p] # Idle) =>
                 /\ frame'[p].pc = "refresh_user"
                 /\ frame'[p].storedToken \in refresh_tokens
                 /\ IsActive(frame'[p].storedToken, now)
                 /\ OwnerExists(frame'[p].storedToken)
       /\ \A p \in Procs :
             (frame[p].pc = "refresh_user" /\ RefreshFindUser(p)) =>
                 IF OwnerExists(frame[p].storedToken)
                 THEN frame'[p].pc = "refresh_revoke"
                 ELSE /\ resp' = UserNotFound(frame[p].request)
                      /\ frame'[p] = Idle
                      /\ UNCHANGED <<users, refresh_tokens, accessTokens,
                                     nextTokenId, nextSecret, rotations>>
       /\ (resp' # resp /\ resp'.op = "refresh" /\ resp'.code = "USER_NOT_FOUND") =>
             \E p \in Procs :
                 /\ frame[p].pc = "refresh_user" /\ RefreshFindUser(p)
                 /\ ~OwnerExists(frame[p].storedToken)
      ]_vars

\* a refresh has been answered USER_NOT_FOUND for the secret of an account
\* that was deleted after the record was found
C27_Witness ==
    \E s \in Secrets :
        /\ resp = UserNotFound([refreshToken |-> s])
        /\ RecordsOf(s) = {}
        /\ users = {}

\* C28: in every state every record's user_id is the id of a stored account;
\* the deletion of an account removes the account and every record of it and
\* nothing else; and a register, login or refresh in flight whose account
\* has been deleted adds no record.
C28_OwnershipIntegrity ==
    /\ [](\A r \in refresh_tokens : OwnerExists(r))
    /\ [][/\ DeleteUser =>
               \E u \in users :
                   /\ users' = users \ {u}
                   /\ refresh_tokens' = {r \in refresh_tokens : r.user_id # u.id}
                   /\ \A r \in refresh_tokens' : r.user_id # u.id
          /\ \A p \in Procs :
                (/\ frame[p].pc \in {"register_token", "login_token", "refresh_create"}
                 /\ frame'[p] = Idle
                 /\ ~\E u \in users : u.id = frame[p].user.id)
                    => /\ refresh_tokens' = refresh_tokens
                       /\ resp'.status \notin {200, 201}
          /\ \A r \in refresh_tokens' : \E u \in users' : u.id = r.user_id
       ]_vars

\* a login found its account, the account was deleted, and the login's INSERT
\* was refused, while the other account keeps its record
C28_Witness ==
    /\ resp.op = "login" /\ resp.status = 500
    /\ ~User_findByEmail(resp.request.email).found
    /\ \E r \in refresh_tokens : OwnerExists(r)

(***************************************************************************)
(* Logout and a refresh in flight                                          *)
(***************************************************************************)
\* the last response sent answers an authenticated logout of the account
LogoutReturned(userId) ==
    /\ resp.op = "logout" /\ resp.status = 200
    /\ resp.request.authorization.bearer
    /\ resp.request.authorization.token.userId = userId

\* C29: when an authenticated logout of an account has returned and the
\* refresh that was in flight then completes, so that no request is in flight
\* any more, the account has no active record that descends from a record
\* stored before the logout returned.
C29_LogoutIsFinal ==
    [][\A p \in Procs :
          (/\ frame[p].pc \in {"refresh_user", "refresh_revoke", "refresh_create"}
           /\ LogoutReturned(frame[p].storedToken.user_id)
           /\ ContinueRefresh(p)
           /\ \A q \in Procs : frame'[q] = Idle)
              => ~\E r \in refresh_tokens', o \in refresh_tokens :
                     /\ r.user_id = frame[p].storedToken.user_id
                     /\ r.root = o.root
                     /\ IsActive(r, now')
      ]_vars

(***************************************************************************)
(* Two registers of one email                                              *)
(***************************************************************************)
UserExists(request) == Error("register", request, 409, "USER_EXISTS")

\* C30: with registers of one email overlapping in any way, no two accounts
\* ever have the same email; a register whose email has been taken by the time
\* it creates its account is answered 409 USER_EXISTS, not an internal error,
\* and adds no account and no record; and every record belongs to an account.
C30_ConcurrentRegistration ==
    /\ [](/\ \A u1, u2 \in users : u1.email = u2.email => u1 = u2
          /\ \A r \in refresh_tokens : OwnerExists(r))
    /\ [][\A p \in Procs : \A salt \in Salts :
            (/\ frame[p].pc = "register_user"
             /\ EmailTaken(frame[p].request.email)
             /\ RegisterCreateUser(p, salt))
                => /\ resp' = UserExists(frame[p].request)
                   /\ UNCHANGED <<users, refresh_tokens>>
       ]_vars

(***************************************************************************)
(* One counter for login and refresh                                       *)
(***************************************************************************)
\* slot p takes the first step of a request that the limiters count
Arrives(p, route) == FirstStep(p, route) /\ hits' # hits

\* failed login calls of the window
FailedLogins == failed - failedRefresh

\* the limiter of the route refuses: 429 with its code, controller not reached
RefusedBy(p, limiter) ==
    /\ resp'.status = 429 /\ resp'.code = limiter.code
    /\ HandlerNotReached(p)

\* C31: between calls the one count of authRateLimit is the number of failed
\* logins plus the number of failed refreshes of the window; a login or a
\* refresh adds to that count and leaves the registration count alone, a
\* register adds to the registration count and leaves that count alone, and
\* each of them adds one to the general count; so, while the general limit is
\* not exceeded, a login that arrives after max failed refreshes, and a
\* refresh that arrives after max failed logins or failed calls of both
\* kinds, is refused by authRateLimit, a register that arrives then is not,
\* and a login or refresh is never refused by registrationRateLimit nor a
\* register by authRateLimit.
C31_SharedAuthCounter ==
    /\ [](Quiet => hits.auth = FailedLogins + failedRefresh /\ FailedLogins >= 0)
    /\ [][\A p \in Procs :
            /\ \A op \in {"login", "refresh"} : Arrives(p, op) =>
                  /\ hits'.general = Hit(generalRateLimit, hits).general
                  /\ hits'.registration = hits.registration
                  /\ ~OverLimit(generalRateLimit) =>
                        /\ hits'.auth = Hit(authRateLimit, hits).auth
                        /\ resp'.code # registrationRateLimit.code
                        /\ (op = "login" /\ failedRefresh >= authRateLimit.max)
                              => RefusedBy(p, authRateLimit)
                        /\ (op = "refresh" /\ FailedLogins >= authRateLimit.max)
                              => RefusedBy(p, authRateLimit)
                        /\ failed >= authRateLimit.max => RefusedBy(p, authRateLimit)
            /\ Arrives(p, "register") =>
                  /\ hits'.general = Hit(generalRateLimit, hits).general
                  /\ hits'.auth = hits.auth
                  /\ ~OverLimit(generalRateLimit) =>
                        /\ hits'.registration = Hit(registrationRateLimit, hits).registration
                        /\ resp'.code # authRateLimit.code
                        /\ resp'.status = 429 <=> hits.registration >= registrationRateLimit.max
       ]_vars

\* a login has been refused by authRateLimit when the five failed calls of
\* the window were all refreshes, and no register was counted
C31_Witness ==
    /\ resp.op = "login" /\ resp.status = 429
    /\ resp.code = "AUTH_RATE_LIMIT_EXCEEDED"
    /\ failedRefresh = 5 /\ FailedLogins = 0
    /\ hits.registration = 0

(***************************************************************************)
(* Normalized emails                                                       *)
(***************************************************************************)
\* the normalized form of an email: its letters in lower case
Normalized(email) ==
    [i \in 1..Len(email) |->
        CASE email[i] = "A" -> "a"
          [] email[i] = "B" -> "b"
          [] email[i] = "P" -> "p"
          [] OTHER -> email[i]]

\* C32: in every state the email stored for an account is its own
\* normalized form and no two accounts have emails with the same normalized
\* form; a register whose email has the normalized form of a stored account's
\* email is answered 409 USER_EXISTS; and a login goes on with the account
\* whose email is the normalized form of the email it presents.
C32_NormalizedEmails ==
    /\ [](/\ \A u \in users : u.email = Normalized(u.email)
          /\ \A u1, u2 \in users :
                Normalized(u1.email) = Normalized(u2.email) => u1 = u2)
    /\ [][\A p \in Procs :
            /\ FirstStep(p, "register") =>
                  \A email \in {Request(p).email} :
                      (\E u \in users : Normalized(u.email) = Normalized(email))
                          => resp' = UserExists([email |-> email])
            /\ (FirstStep(p, "login") /\ frame'[p] # Idle) =>
                  frame'[p].user.email = Normalized(frame'[p].request.email)
       ]_vars


(***************************************************************************)
(* migrations/migrate.ts: the migration runner                             *)
(***************************************************************************)
\* file.endsWith('.sql')
endsWithSql(filename) == filename[2] = ".sql"

\* filename.replace('.sql', ''): the id of a migration is its base name
MigrationId(filename) == filename[1]

\* Array.prototype.sort() on the names of the .sql files: ascending
RECURSIVE sort(_)
sort(files) ==
    IF files = {} THEN <<>>
    ELSE LET first == CHOOSE f \in files :
                          \A g \in files : f.filename[1] <= g.filename[1]
         IN  <<first>> \o sort(files \ {first})

\* getMigrationFiles: the .sql files, sorted, each with its id and content
getMigrationFiles ==
    LET files == sort({f \in MIGRATIONS_DIR : endsWithSql(f.filename)})
    IN  [i \in 1..Len(files) |->
            [id |-> MigrationId(files[i].filename),
             filename |-> files[i].filename,
             content |-> files[i].content]]

\* getExecutedMigrations: SELECT id FROM migrations
getExecutedMigrations == {row.id : row \in migrations}

\* allMigrations.filter(m => !executedMigrations.includes(m.id))
PendingMigrations(allMigrations, executed) ==
    SelectSeq(allMigrations, LAMBDA m : m.id \notin executed)

SqlFileNames == 1..MaxFiles

\* someone adds a migration file to the directory
AddFile(n, fails) ==
    /\ \A f \in MIGRATIONS_DIR : f.filename # <<n, ".sql">>
    /\ MIGRATIONS_DIR' = MIGRATIONS_DIR \cup {SqlFile(n, fails)}
    /\ UNCHANGED <<migrations, schema, runner>>

\* someone corrects the SQL of a migration file
RepairFile(n) ==
    /\ SqlFile(n, TRUE) \in MIGRATIONS_DIR
    /\ MIGRATIONS_DIR' = (MIGRATIONS_DIR \ {SqlFile(n, TRUE)}) \cup {SqlFile(n, FALSE)}
    /\ UNCHANGED <<migrations, schema, runner>>

\* main calls migrateUp, which awaits createMigrationsTable:
\* CREATE TABLE IF NOT EXISTS leaves an existing table as it is
MigrateUp ==
    /\ runner.pc = "exit"
    /\ runner' = [NotRunning EXCEPT !.pc = "select"]
    /\ UNCHANGED <<MIGRATIONS_DIR, migrations, schema>>

\* migrateUp reads the executed ids and the files, and returns when nothing
\* is pending
FindPending ==
    /\ runner.pc = "select"
    /\ LET allMigrations == getMigrationFiles
           pending == PendingMigrations(allMigrations, getExecutedMigrations)
       IN  runner' = [runner EXCEPT !.pc = IF pending = <<>> THEN "exit" ELSE "begin",
                                    !.allMigrations = allMigrations,
                                    !.pending = pending]
    /\ UNCHANGED <<MIGRATIONS_DIR, migrations, schema>>

\* runMigration: BEGIN
Begin ==
    /\ runner.pc = "begin"
    /\ runner' = [runner EXCEPT !.pc = "content", !.tx = [open |-> TRUE, sql |-> <<>>, rows |-> {}]]
    /\ UNCHANGED <<MIGRATIONS_DIR, migrations, schema>>

\* runMigration: pool.query(migration.content); SQL that fails has run in
\* part when the error is raised
RunContent ==
    /\ runner.pc = "content"
    /\ LET migration == Head(runner.pending)
           done == [id |-> migration.id, sql |-> migration.content.sql,
                    complete |-> ~migration.content.fails]
       IN  runner' = [runner EXCEPT !.pc = IF migration.content.fails THEN "rollback" ELSE "insert",
                                    !.tx.sql = Append(@, done)]
    /\ UNCHANGED <<MIGRATIONS_DIR, migrations, schema>>

\* runMigration: INSERT INTO migrations (id, filename); id is the primary key
InsertMigration ==
    /\ runner.pc = "insert"
    /\ LET migration == Head(runner.pending)
       IN  runner' = IF migration.id \in getExecutedMigrations
                     THEN [runner EXCEPT !.pc = "rollback"]
                     ELSE [runner EXCEPT !.pc = "commit",
                                         !.tx.rows = @ \cup {[id |-> migration.id,
                                                              filename |-> migration.filename]}]
    /\ UNCHANGED <<MIGRATIONS_DIR, migrations, schema>>

\* runMigration: COMMIT, and the loop of migrateUp goes on
Commit ==
    /\ runner.pc = "commit"
    /\ schema' = schema \o runner.tx.sql
    /\ migrations' = migrations \cup runner.tx.rows
    /\ runner' = [runner EXCEPT !.pc = IF Tail(runner.pending) = <<>> THEN "exit" ELSE "begin",
                                !.pending = Tail(@),
                                !.tx = NoTransaction,
                                !.applied = Append(@, Head(runner.pending).id)]
    /\ UNCHANGED MIGRATIONS_DIR

Rollback_keeping ==
    /\ runner.pc = "rollback"
    /\ schema' = schema \o runner.tx.sql
    /\ runner' = [runner EXCEPT !.pc = "exit", !.status = 1, !.tx = NoTransaction]
    /\ UNCHANGED <<MIGRATIONS_DIR, migrations>>

\* runMigration: ROLLBACK and rethrow; main logs and exits with status 1
Rollback ==
    /\ runner.pc = "rollback"
    /\ runner' = [runner EXCEPT !.pc = "exit", !.status = 1, !.tx = NoTransaction]
    /\ UNCHANGED <<MIGRATIONS_DIR, migrations, schema>>

NoRequests ==
    UNCHANGED <<users, refresh_tokens, now, nextUserId, nextTokenId, nextSecret,
                frame, resp, accessTokens, rotations, hits, failed, failedRefresh>>

NextMigrate ==
    \/ (\E n \in SqlFileNames, fails \in BOOLEAN : AddFile(n, fails)) /\ NoRequests
    \/ (\E n \in SqlFileNames : RepairFile(n)) /\ NoRequests
    \/ MigrateUp /\ NoRequests
    \/ FindPending /\ NoRequests
    \/ Begin /\ NoRequests
    \/ RunContent /\ NoRequests
    \/ InsertMigration /\ NoRequests
    \/ Commit /\ NoRequests
    \/ Rollback /\ NoRequests

SpecMigrate == Init /\ [][NextMigrate]_vars

\* the ids of the SQL that is committed, in commit order
AppliedIds == [i \in 1..Len(schema) |-> schema[i].id]

Ascending(ids) == \A i, j \in 1..Len(ids) : i < j => ids[i] < ids[j]

\* the script takes a step
Steps == runner' # runner

\* the script has started and ended, with this exit status
Ended(status) == runner.pc # "exit" /\ runner'.pc = "exit" /\ runner'.status = status

====
